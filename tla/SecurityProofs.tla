--------------------------- MODULE SecurityProofs ---------------------------
(***************************************************************************)
(* Theorems about Security, for any keys, any number of attempts and       *)
(* challenges, and counters of any width.                                  *)
(***************************************************************************)
EXTENDS Security, TLAPS

AuthType == [authenticated : BOOLEAN, pending : BOOLEAN, challenge : 0..MaxChallenges,
             haveRx : BOOLEAN, rx : 0..Half - 1, tx : 0..Top]

Types == /\ config \in Configs /\ auth \in AuthType
         /\ attempts \in 0..MaxAttempts /\ granted = attempts
         /\ issued \in 0..MaxChallenges
         /\ opened \in [Challenges -> SUBSET Key]

(* The host's counters are below Half, the device's are not. *)
Numbers == /\ executed \subseteq (1..issued) \X (0..Half - 1)
           /\ nonces \subseteq (1..issued) \X (Half..Top)

(* A challenge that waits for its proof has no session yet. *)
PendingInv == auth.pending => /\ auth.challenge \in 1..issued
                              /\ \A e \in executed \cup nonces: e[1] # auth.challenge

(* A session was opened with the key in use; rx and tx are past its numbers. *)
SessionInv == auth.authenticated =>
  /\ ~auth.pending /\ auth.tx >= Half
  /\ auth.challenge \in 1..issued /\ config.key \in opened[auth.challenge]
  /\ \A e \in executed: e[1] = auth.challenge => auth.haveRx /\ e[2] <= auth.rx
  /\ \A n \in nonces: n[1] = auth.challenge => n[2] < auth.tx

IInv == Types /\ Numbers /\ PendingInv /\ SessionInv

-----------------------------------------------------------------------------
LEMMA NoAuthType == NoAuth \in AuthType /\ ~NoAuth.pending /\ ~NoAuth.authenticated
BY SecurityAssumption DEF SecurityAssumption, NoAuth, AuthType, Top

LEMMA InitHolds == Init => IInv
<1> SUFFICES ASSUME Init PROVE IInv
  OBVIOUS
<1>1. Types
  BY NoAuthType, SecurityAssumption DEF SecurityAssumption, Init, Types, Challenges
<1>2. Numbers /\ PendingInv /\ SessionInv
  BY NoAuthType DEF Init, Numbers, PendingInv, SessionInv
<1> QED
  BY <1>1, <1>2 DEF IInv

(* A step that at most forgets the session. *)
LEMMA Forgets ==
  ASSUME IInv, auth' \in {auth, NoAuth}, auth' = auth => config' = config, config' \in Configs,
         attempts' \in 0..MaxAttempts, granted' = attempts',
         UNCHANGED <<issued, historyVars>>
  PROVE  IInv'
<1> USE NoAuthType DEF IInv, historyVars
<1>1. Types' BY DEF Types
<1>2. Numbers' BY DEF Numbers
<1>3. PendingInv' BY DEF PendingInv
<1>4. SessionInv' BY DEF SessionInv
<1> QED BY <1>1, <1>2, <1>3, <1>4

LEMMA AttemptsType == IInv => Attempts \in 0..MaxAttempts /\ Granted = Attempts
BY SecurityAssumption DEF SecurityAssumption, IInv, Types, Attempts, Granted

LEMMA ChallengeKeeps == ASSUME IInv, Challenge PROVE IInv'
<1>1. /\ attempts' \in 0..MaxAttempts /\ granted' = attempts'
      /\ UNCHANGED <<config, historyVars>>
  BY AttemptsType, SecurityAssumption DEF SecurityAssumption, Challenge
<1>2. CASE auth' = NoAuth /\ UNCHANGED issued
  BY <1>1, <1>2, Forgets DEF IInv, Types
<1>3. CASE /\ issued < MaxChallenges /\ issued' = issued + 1
           /\ Answered([NoAuth EXCEPT !.pending = TRUE, !.challenge = issued'])
  <2> DEFINE asked == [authenticated |-> FALSE, pending |-> TRUE, challenge |-> issued + 1,
                       haveRx |-> FALSE, rx |-> 0, tx |-> 0]
  <2>0. auth' = NoAuth \/ auth' = asked
    BY <1>3 DEF Answered, NoAuth
  <2>a. issued + 1 \in 1..MaxChallenges /\ issued \in Nat
    BY <1>3, SecurityAssumption DEF SecurityAssumption, IInv, Types
  <2>b. asked \in AuthType
    BY <2>a, SecurityAssumption DEF SecurityAssumption, AuthType, Top
  <2>c. ~asked.authenticated /\ asked.challenge = issued + 1
    OBVIOUS
  <2> HIDE DEF asked
  <2>1. Types'
    BY <1>1, <1>3, <2>0, <2>a, <2>b, NoAuthType DEF Types, IInv, historyVars
  <2>2. Numbers'
    BY <1>1, <1>3, <2>a DEF Numbers, IInv, historyVars
  <2>3. PendingInv'
    BY <1>1, <1>3, <2>0, <2>a, <2>c, NoAuthType DEF PendingInv, IInv, Numbers, historyVars
  <2>4. SessionInv'
    BY <2>0, <2>c, NoAuthType DEF SessionInv
  <2> QED BY <2>1, <2>2, <2>3, <2>4 DEF IInv
<1> QED
  BY <1>2, <1>3 DEF Challenge

LEMMA ProofKeeps ==
  ASSUME IInv, NEW c \in 1..issued, NEW k \in Key, Proof(c, k) PROVE IInv'
<1>1. /\ attempts' \in 0..MaxAttempts /\ granted' = attempts'
      /\ UNCHANGED <<config, issued, executed, nonces>>
  BY AttemptsType DEF Proof
<1>2. CASE auth' \in {auth, NoAuth} /\ UNCHANGED opened
  BY <1>1, <1>2, Forgets DEF IInv, Types, historyVars
<1>3. CASE /\ Current.pending /\ c = auth.challenge /\ k = config.key
           /\ Answered(Opened(c)) /\ opened' = [opened EXCEPT ![c] = @ \cup {k}]
  <2>1. auth.pending /\ c \in Challenges
    <3>1. auth.pending
      BY <1>3, NoAuthType DEF Current
    <3>2. issued \in 0..MaxChallenges /\ MaxChallenges \in Nat
      BY SecurityAssumption DEF SecurityAssumption, IInv, Types
    <3> QED BY <3>1, <3>2 DEF Challenges
  <2> USE SecurityAssumption, <1>1, <1>3, <2>1 DEF SecurityAssumption, IInv, Answered
  <2>a. Opened(c) \in AuthType
    BY DEF Opened, AuthType, Top, Challenges
  <2>b. opened' \in [Challenges -> SUBSET Key]
    BY DEF Types
  <2>2. Types' BY <2>a, <2>b, NoAuthType DEF Types
  <2>3. Numbers' BY DEF Numbers
  <2>4. PendingInv' BY DEF PendingInv, NoAuth, Opened
  <2>5. SessionInv' BY DEF SessionInv, PendingInv, Types, NoAuth, Opened
  <2> QED BY <2>2, <2>3, <2>4, <2>5
<1> QED
  BY <1>2, <1>3 DEF Proof, Current, Answered

LEMMA LiveForgets == Live \in {auth, NoAuth} /\ (Live.authenticated => Live = auth)
BY NoAuthType DEF Live

LEMMA ConfigOps == IInv => config \in Configs
BY DEF IInv, Types

LEMMA RunPlainKeeps == ASSUME IInv, NEW op \in Ops, RunPlain(op) PROVE IInv'
<1>1. /\ auth' \in {auth, NoAuth} /\ config' \in Configs
      /\ auth' = auth /\ auth # NoAuth => config' = config
  BY LiveForgets, ConfigOps DEF RunPlain, Runs
<1>2. UNCHANGED <<attempts, issued, historyVars, granted>>
  BY DEF RunPlain
<1>3. CASE auth = NoAuth
  <2> USE <1>1, <1>2, <1>3, NoAuthType DEF IInv, historyVars
  <2>1. Types' BY DEF Types
  <2>2. Numbers' BY DEF Numbers
  <2>3. PendingInv' /\ SessionInv' BY DEF PendingInv, SessionInv
  <2> QED BY <2>1, <2>2, <2>3
<1>4. CASE auth # NoAuth
  BY <1>1, <1>2, <1>4, Forgets DEF IInv, Types
<1> QED
  BY <1>3, <1>4

LEMMA RunSealedKeeps ==
  ASSUME IInv, NEW op \in Ops, NEW session \in 0..issued, NEW counter \in 0..Half,
         RunSealed(op, session, counter)
  PROVE  IInv'
<1> DEFINE a == [auth EXCEPT !.rx = counter, !.haveRx = TRUE]
           b == [a EXCEPT !.tx = @ + 1]
<1>1. Live = auth /\ auth.authenticated /\ session = auth.challenge /\ Fresh(counter)
  BY LiveForgets DEF RunSealed
<1>2. /\ counter \in 0..Half - 1 /\ session \in 1..issued
      /\ auth.haveRx => counter > auth.rx
  BY <1>1, SecurityAssumption DEF SecurityAssumption, Fresh, IInv, SessionInv
<1>3. /\ a \in AuthType /\ a.authenticated /\ ~a.pending /\ a.challenge = auth.challenge
      /\ a.haveRx /\ a.rx = counter /\ a.tx = auth.tx
  BY <1>1, <1>2 DEF IInv, Types, AuthType, SessionInv
<1>4. /\ \/ auth' = a /\ UNCHANGED <<config, nonces>>
         \/ auth' = NoAuth /\ config' \in Configs /\ UNCHANGED nonces
         \/ /\ a.tx # Top /\ nonces' = nonces \cup {<<a.challenge, a.tx>>}
            /\ (auth' = b /\ UNCHANGED config) \/ (auth' = NoAuth /\ config' \in Configs)
      /\ executed' = executed \cup {<<session, counter>>}
      /\ UNCHANGED <<attempts, issued, opened, granted>>
  BY <1>1 DEF RunSealed, Runs, Seal
<1>5. auth.tx \in Half..Top
  BY <1>1 DEF IInv, Types, SessionInv, AuthType
<1>6. a.tx # Top => /\ b \in AuthType /\ b.authenticated /\ ~b.pending
                    /\ b.challenge = auth.challenge /\ b.haveRx /\ b.rx = counter
                    /\ b.tx = auth.tx + 1
  <2> SUFFICES ASSUME a.tx # Top
               PROVE  /\ b \in AuthType /\ b.authenticated /\ ~b.pending
                      /\ b.challenge = auth.challenge /\ b.haveRx /\ b.rx = counter
                      /\ b.tx = auth.tx + 1
    OBVIOUS
  <2>1. a.tx + 1 \in 0..Top
    BY <1>3, <1>5, SecurityAssumption DEF SecurityAssumption, Top
  <2> HIDE DEF a
  <2> QED
    BY <1>3, <2>1 DEF AuthType
<1> HIDE DEF a, b
<1>7. Types'
  BY <1>3, <1>4, <1>6, NoAuthType DEF IInv, Types
<1>8. Numbers'
  BY <1>2, <1>3, <1>4, <1>5, <1>1 DEF IInv, Numbers
<1>9. PendingInv'
  BY <1>3, <1>4, <1>6, NoAuthType DEF PendingInv
<1>10. \A e \in executed': e[1] = auth.challenge => e[2] <= counter
  <2> SUFFICES ASSUME NEW e \in executed', e[1] = auth.challenge PROVE e[2] <= counter
    OBVIOUS
  <2>1. CASE e = <<session, counter>>
    BY <1>2, <2>1
  <2>2. CASE e \in executed
    <3>1. auth.haveRx /\ e[2] <= auth.rx
      BY <1>1, <2>2 DEF IInv, SessionInv
    <3>2. e[2] \in Int /\ auth.rx \in Int
      BY <2>2 DEF IInv, Numbers, Types, AuthType
    <3> QED
      BY <1>2, <3>1, <3>2
  <2> QED
    BY <1>4, <2>1, <2>2
<1>11. \A n \in nonces: n[1] = auth.challenge => n[2] < auth.tx /\ n[2] < auth.tx + 1
  <2> SUFFICES ASSUME NEW n \in nonces, n[1] = auth.challenge
               PROVE  n[2] < auth.tx /\ n[2] < auth.tx + 1
    OBVIOUS
  <2>1. n[2] < auth.tx
    BY <1>1 DEF IInv, SessionInv
  <2>2. n[2] \in Int /\ auth.tx \in Int
    BY <1>5 DEF IInv, Numbers
  <2> QED
    BY <2>1, <2>2
<1>12. /\ auth.challenge \in 1..issued' /\ auth.tx >= Half /\ auth.tx + 1 >= Half
       /\ config.key \in opened'[auth.challenge]
  BY <1>1, <1>4, <1>5, SecurityAssumption DEF SecurityAssumption, IInv, SessionInv
<1>13. SessionInv'
  <2>1. CASE auth' = NoAuth
    BY <2>1, NoAuthType DEF SessionInv
  <2>2. CASE auth' = a /\ UNCHANGED <<config, nonces>>
    BY <1>3, <1>10, <1>11, <1>12, <2>2 DEF SessionInv
  <2>3. CASE auth' = b /\ a.tx # Top /\ UNCHANGED config /\ nonces' = nonces \cup {<<a.challenge, a.tx>>}
    <3>1. \A n \in nonces': n[1] = auth.challenge => n[2] < auth.tx + 1
      BY <1>3, <1>5, <1>11, <2>3
    <3> QED
      BY <1>6, <1>10, <1>12, <2>3, <3>1 DEF SessionInv
  <2> QED
    BY <1>4, <2>1, <2>2, <2>3
<1> QED
  BY <1>7, <1>8, <1>9, <1>13 DEF IInv

LEMMA StepKeeps == ASSUME IInv, [Next]_vars PROVE IInv'
<1>1. CASE NotAvailable \/ LinkLost \/ TimePasses
  BY <1>1, Forgets DEF NotAvailable, LinkLost, TimePasses, Answered, IInv, Types
<1>2. CASE TooManyAttempts
  BY <1>2, Forgets, AttemptsType, NoAuthType DEF TooManyAttempts, Answered, Current, IInv, Types
<1>3. CASE Restart
  BY <1>3, Forgets, SecurityAssumption DEF SecurityAssumption, Restart, IInv, Types
<1>4. ASSUME NEW c \in 1..issued, NEW k \in Key, Proof(c, k) PROVE IInv'
  BY <1>4, ProofKeeps
<1>5. CASE SecureCommand
  <2>1. PICK op \in Ops:
          \/ Denied(op) \/ RunPlain(op)
          \/ \E session \in 0..issued, counter \in 0..Half:
               RunSealed(op, session, counter) \/ Rejected(op, session, counter)
    BY <1>5 DEF SecureCommand
  <2>2. CASE Denied(op)
    BY <2>2, LiveForgets, Forgets DEF Denied, IInv, Types
  <2>3. ASSUME NEW session \in 0..issued, NEW counter \in 0..Half, Rejected(op, session, counter)
        PROVE  IInv'
    BY <2>3, Forgets DEF Rejected, IInv, Types
  <2> QED
    BY <2>1, <2>2, <2>3, RunPlainKeeps, RunSealedKeeps
<1>6. CASE UNCHANGED vars
  BY <1>6, Forgets DEF vars, IInv, Types
<1> QED
  BY <1>1, <1>2, <1>3, <1>4, <1>5, <1>6, ChallengeKeeps DEF Next

-----------------------------------------------------------------------------
(* The inductive invariant, over every order of commands, disconnects,
   restarts and timeouts. *)
THEOREM SecurityInvariant == Spec => []IInv
<1> QED BY InitHolds, StepKeeps, PTL DEF Spec

(* The session state keeps its types: no counter beyond 64 bits, no attempt
   beyond the limit, never a session and a challenge at once (security.c:9-16). *)
THEOREM SecurityTypes == Spec => []TypeOK
<1>1. IInv => TypeOK
  BY DEF IInv, Types, AuthType, SessionInv, TypeOK
<1> QED BY <1>1, SecurityInvariant, PTL

(* No nonce is used twice under a key, whatever the width of the counters: the
   device's stop at their end (security.c:117-119, 139, 146). *)
THEOREM NoncesOnce == Spec => []NonceOnce
<1>1. IInv => NonceOnce
  <2> SUFFICES ASSUME IInv PROVE NonceOnce
    OBVIOUS
  <2>1. nonces \cap executed = {}
    <3> SUFFICES ASSUME NEW n \in nonces, n \in executed PROVE FALSE
      OBVIOUS
    <3>1. n[2] \in Half..Top /\ n[2] \in 0..Half - 1
      BY DEF IInv, Numbers
    <3> QED
      BY <3>1, SecurityAssumption DEF SecurityAssumption, Top
  <2>2. \A n \in nonces: n[1] = auth.challenge /\ auth.authenticated => n[2] < auth.tx
    BY DEF IInv, SessionInv
  <2> QED
    BY <2>1, <2>2 DEF NonceOnce
<1> QED BY <1>1, SecurityInvariant, PTL

(* No window gives out more challenges than it may (security.c:52-78). *)
THEOREM ChallengesLimited == Spec => []LimitHolds
<1>1. IInv => LimitHolds
  BY SecurityAssumption DEF SecurityAssumption, IInv, Types, LimitHolds
<1> QED BY <1>1, SecurityInvariant, PTL

LEMMA RanSealed ==
  ASSUME IInv, Next, ran'.session # 0
  PROVE  \E op \in Ops, session \in 0..issued, counter \in 0..Half: RunSealed(op, session, counter)
<1>1. ran' # NotRun
  BY DEF NotRun
<1> QED
  BY <1>1 DEF Next, NotAvailable, TooManyAttempts, Challenge, Proof, LinkLost, Restart, TimePasses,
     SecureCommand, Denied, RunPlain, Rejected

(* A sealed command is executed once, in any session and for any number of
   repetitions (security.c:192-204). *)
THEOREM ExecutedOnce == Spec => NoReplay
<1>1. ASSUME IInv, [Next]_vars
      PROVE  [ran'.session # 0 => <<ran'.session, ran'.counter>> \notin executed]_vars
  <2> SUFFICES ASSUME Next, ran'.session # 0
               PROVE  <<ran'.session, ran'.counter>> \notin executed
    BY <1>1
  <2>1. PICK op \in Ops, session \in 0..issued, counter \in 0..Half: RunSealed(op, session, counter)
    BY <1>1, RanSealed
  <2>2. /\ ran'.session = session /\ ran'.counter = counter
        /\ auth.authenticated /\ session = auth.challenge
        /\ auth.haveRx => counter > auth.rx
    BY <2>1, LiveForgets DEF RunSealed, Fresh
  <2>3. ASSUME <<session, counter>> \in executed PROVE FALSE
    <3>1. <<session, counter>>[1] = session /\ <<session, counter>>[2] = counter
      OBVIOUS
    <3>2. auth.haveRx /\ counter <= auth.rx
      BY <1>1, <2>2, <2>3, <3>1 DEF IInv, SessionInv
    <3>3. auth.rx \in Int
      BY <1>1 DEF IInv, Types, AuthType
    <3> QED
      BY <2>2, <3>2, <3>3
  <2> QED
    BY <2>2, <2>3
<1> QED BY <1>1, SecurityInvariant, PTL DEF Spec, NoReplay

(* A protected command is executed only in a session opened with the key in
   use and not run out, or while rewriting is allowed: for any keys and any
   changes of the configuration (security.c:172-211). *)
THEOREM GateAlwaysHolds == Spec => GateHolds
<1> DEFINE Gate == (Enabled /\ ran'.op \in {"config", "other"}) =>
                     \/ ran'.op = "config" /\ config.rewrite /\ ran'.session = 0
                     \/ /\ ran'.session # 0 /\ config.key \in opened[ran'.session]
                        /\ ~(config.timed /\ sessionOld)
<1>1. ASSUME IInv, [Next]_vars PROVE [Gate]_vars
  <2> SUFFICES ASSUME Next, Enabled, ran'.op \in {"config", "other"} PROVE Gate
    BY <1>1
  <2>1. CASE ran'.session # 0
    <3>1. PICK op \in Ops, session \in 0..issued, counter \in 0..Half: RunSealed(op, session, counter)
      BY <1>1, <2>1, RanSealed
    <3>2. Live.authenticated /\ ran'.session = Live.challenge /\ Live = auth
      BY <3>1, LiveForgets DEF RunSealed
    <3>3. ~(config.timed /\ sessionOld)
      BY <3>2, NoAuthType DEF Live
    <3> QED
      BY <1>1, <2>1, <3>2, <3>3 DEF IInv, SessionInv
  <2>2. CASE ran'.session = 0
    <3>1. \A op \in Ops, session \in 0..issued, counter \in 0..Half: ~RunSealed(op, session, counter)
      <4> SUFFICES ASSUME NEW op \in Ops, NEW session \in 0..issued, NEW counter \in 0..Half,
                          RunSealed(op, session, counter)
                   PROVE  FALSE
        OBVIOUS
      <4>1. session \in 1..issued /\ ran'.session = session
        BY <1>1, LiveForgets DEF RunSealed, IInv, SessionInv
      <4> QED
        BY <2>2, <4>1
    <3>2. ran' # NotRun
      BY DEF NotRun
    <3>3. \E op \in Ops: RunPlain(op)
      BY <3>1, <3>2 DEF Next, NotAvailable, TooManyAttempts, Challenge, Proof, LinkLost, Restart,
         TimePasses, SecureCommand, Denied, Rejected
    <3> QED
      BY <3>3, <2>2 DEF RunPlain, Protected, Rewrite
  <2> QED
    BY <2>1, <2>2
<1> QED BY <1>1, SecurityInvariant, PTL DEF Spec, GateHolds
=============================================================================
