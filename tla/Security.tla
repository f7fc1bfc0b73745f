------------------------------ MODULE Security ------------------------------
(***************************************************************************)
(* apps/opendisplay/src/security.c: the challenge and proof of command     *)
(* 0x50, the session they open, and od_secure_command, which every other   *)
(* command passes.  All of it runs on the display task, a command at a     *)
(* time.                                                                   *)
(*                                                                         *)
(* Cryptography is ideal: a proof is the challenge and the key it was made *)
(* with, a sealed command the session and the counter it was sealed with.  *)
(* A session is named by its challenge; challenges are random, so they do  *)
(* not repeat.  Of the time only what is compared is kept: whether the     *)
(* challenge, the session and the window of attempts have run out.         *)
(***************************************************************************)
EXTENDS Integers, FiniteSets

CONSTANTS Key, NoKey,    \* keys of the security record; NoKey: not enabled
          MaxAttempts,   \* 10 challenges a window
          Half,          \* 2^63: the host's counters are below, the device's above
          MaxChallenges  \* bound: challenges issued

ASSUME SecurityAssumption ==
  /\ NoKey \notin Key /\ MaxAttempts \in Nat \ {0}
  /\ Half \in Nat \ {0} /\ MaxChallenges \in Nat

VARIABLES
  config,   \* the security record in use: key, session timeout, unauthenticated rewrite
  auth,     \* static struct auth
  attempts, \* challenges in this window
  challengeOld, sessionOld, windowOver, \* time
  issued,   \* challenges so far
  opened,   \* history: the key each session was opened with
  executed, \* history: sealed commands that were executed, <<session, counter>>
  nonces,   \* history: nonces the device sealed responses with
  granted,  \* history: challenges given out in this window
  ran       \* history: what the last step executed

timeVars == <<challengeOld, sessionOld, windowOver>>
historyVars == <<opened, executed, nonces>>
vars == <<config, auth, attempts, timeVars, issued, historyVars, granted, ran>>

Challenges == 1..MaxChallenges
Top == 2 * Half - 1 \* UINT64_MAX

Configs == [key : Key \cup {NoKey}, timed : BOOLEAN, rewrite : BOOLEAN]
Enabled == config.key # NoKey

(* od_security_reset *)
NoAuth == [authenticated |-> FALSE, pending |-> FALSE, challenge |-> 0,
           haveRx |-> FALSE, rx |-> 0, tx |-> 0]

NotRun == [op |-> "none", session |-> 0, counter |-> 0]

-----------------------------------------------------------------------------
(***************************************************************************)
(* Command 0x50.                                                           *)
(***************************************************************************)
(* What authenticate does first: a challenge that is out of date is dropped
   (nothing else is set while one is pending), a window that is over begins
   anew. *)
Current == IF auth.pending /\ challengeOld THEN NoAuth ELSE auth
AttemptsOfSession == IF windowOver \/ auth = NoAuth THEN 0 ELSE attempts \* mutant of Attempts
Attempts == IF windowOver THEN 0 ELSE attempts
Granted == IF windowOver THEN 0 ELSE granted

(* The reply may not be delivered. *)
Answered(a) == auth' \in {a, NoAuth}

NotAvailable ==
  /\ ~Enabled
  /\ Answered(auth)
  /\ ran' = NotRun
  /\ UNCHANGED <<config, attempts, timeVars, issued, historyVars, granted>>

TooManyAttempts ==
  /\ Enabled /\ Attempts >= MaxAttempts
  /\ Answered(Current)
  /\ attempts' = Attempts /\ granted' = Granted /\ windowOver' = FALSE
  /\ ran' = NotRun
  /\ UNCHANGED <<config, challengeOld, sessionOld, issued, historyVars>>

(* A request for a challenge ends the session there was.  Without a random
   number or with a short MTU no challenge comes of it. *)
Challenge ==
  /\ Enabled /\ Attempts < MaxAttempts
  /\ attempts' = Attempts + 1 /\ granted' = Granted + 1 /\ windowOver' = FALSE
  /\ \/ auth' = NoAuth /\ UNCHANGED <<issued, challengeOld>>
     \/ /\ issued < MaxChallenges
        /\ issued' = issued + 1 /\ challengeOld' = FALSE
        /\ Answered([NoAuth EXCEPT !.pending = TRUE, !.challenge = issued'])
  /\ ran' = NotRun
  /\ UNCHANGED <<config, sessionOld, historyVars>>

(* mutant of Opened: the device counts from the host's first number *)
OpenedLow(c) == [authenticated |-> TRUE, pending |-> FALSE, challenge |-> c,
                 haveRx |-> FALSE, rx |-> 0, tx |-> 0]
Opened(c) == [authenticated |-> TRUE, pending |-> FALSE, challenge |-> c,
              haveRx |-> FALSE, rx |-> 0, tx |-> Half]

(* A proof made with challenge c and key k, of which one try is allowed. *)
Proof(c, k) ==
  /\ Enabled
  /\ attempts' = Attempts /\ granted' = Granted /\ windowOver' = FALSE
  /\ IF ~Current.pending
     THEN Answered(Current) /\ UNCHANGED <<sessionOld, opened>>
     ELSE IF c = auth.challenge /\ k = config.key
          THEN /\ Answered(Opened(c))
               /\ opened' = [opened EXCEPT ![c] = @ \cup {k}]
               /\ sessionOld' = FALSE
          ELSE auth' = NoAuth /\ UNCHANGED <<sessionOld, opened>>
  /\ ran' = NotRun
  /\ UNCHANGED <<config, challengeOld, issued, executed, nonces>>

-----------------------------------------------------------------------------
(***************************************************************************)
(* od_secure_command.  Operations: "open" for 0x43 and 0x44, "config" for  *)
(* 0x41 and 0x42, "other".  A command is sealed in some session with some  *)
(* counter, or plain: session 0.                                           *)
(***************************************************************************)
Ops == {"open", "config", "other"}

(* The session once its timeout has been looked at. *)
Live == IF auth.authenticated /\ config.timed /\ sessionOld THEN NoAuth ELSE auth

Protected(op) == Enabled /\ op # "open"
Rewrite(op) == op = "config" /\ config.rewrite

Denied(op) ==
  /\ Protected(op) /\ ~Live.authenticated /\ ~Rewrite(op)
  /\ auth' = Live
  /\ ran' = NotRun
  /\ UNCHANGED <<config, attempts, timeVars, issued, historyVars, granted>>

(* mutant of Runs: a new configuration leaves the session as it is *)
RunsOn(op, a) ==
  /\ config' \in IF op # "open" THEN Configs ELSE {config}
  /\ auth' = a

(* od_command with session state a: an upload (0x41, 0x42) or 0x45 may put
   another configuration into use, which ends the session. *)
Runs(op, a) ==
  \/ auth' = a /\ UNCHANGED config
  \/ op # "open" /\ config' \in Configs /\ auth' = NoAuth

RunPlain(op) ==
  /\ ~Protected(op) \/ (~Live.authenticated /\ Rewrite(op))
  /\ Runs(op, Live)
  /\ ran' = [op |-> op, session |-> 0, counter |-> 0]
  /\ UNCHANGED <<attempts, timeVars, issued, historyVars, granted>>

(* mutant of Fresh: the last counter may come again *)
FreshOrEqual(counter) == counter < Half /\ (Live.haveRx => counter >= Live.rx)
Fresh(counter) == counter < Half /\ (Live.haveRx => counter > Live.rx)

(* One response at most, sealed with the next nonce, if there is one left. *)
Seal(a) == [a EXCEPT !.tx = IF @ = Top THEN @ ELSE @ + 1]

RunSealed(op, session, counter) ==
  /\ Protected(op) /\ Live.authenticated
  /\ session = Live.challenge /\ Fresh(counter)
  /\ LET a == [Live EXCEPT !.rx = counter, !.haveRx = TRUE]
     IN  \/ Runs(op, a) /\ UNCHANGED nonces
         \/ /\ a.tx # Top
            /\ Runs(op, Seal(a))
            /\ nonces' = nonces \cup {<<a.challenge, a.tx>>}
  /\ executed' = executed \cup {<<session, counter>>}
  /\ ran' = [op |-> op, session |-> session, counter |-> counter]
  /\ UNCHANGED <<attempts, timeVars, issued, opened, granted>>

(* Anything else sent in a session ends it; so does what is not sealed. *)
Rejected(op, session, counter) ==
  /\ Protected(op) /\ Live.authenticated
  /\ session # Live.challenge \/ ~Fresh(counter)
  /\ auth' = NoAuth
  /\ ran' = NotRun
  /\ UNCHANGED <<config, attempts, timeVars, issued, historyVars, granted>>

SecureCommand ==
  \E op \in Ops:
    \/ Denied(op)
    \/ RunPlain(op)
    \/ \E session \in 0..issued, counter \in 0..Half:
         RunSealed(op, session, counter) \/ Rejected(op, session, counter)

-----------------------------------------------------------------------------
(* od_security_reset from main.c: the link is lost, a transfer has expired. *)
LinkLost ==
  /\ auth # NoAuth
  /\ auth' = NoAuth /\ ran' = NotRun
  /\ UNCHANGED <<config, attempts, timeVars, issued, historyVars, granted>>

Restart ==
  /\ auth' = NoAuth /\ attempts' = 0 /\ granted' = 0
  /\ windowOver' = FALSE /\ ran' = NotRun
  /\ UNCHANGED <<config, challengeOld, sessionOld, issued, historyVars>>

TimePasses ==
  /\ \/ ~challengeOld /\ challengeOld' = TRUE /\ UNCHANGED <<sessionOld, windowOver>>
     \/ ~sessionOld /\ sessionOld' = TRUE /\ UNCHANGED <<challengeOld, windowOver>>
     \/ ~windowOver /\ windowOver' = TRUE /\ UNCHANGED <<challengeOld, sessionOld>>
  /\ ran' = NotRun
  /\ UNCHANGED <<config, auth, attempts, issued, historyVars, granted>>

Init ==
  /\ config \in Configs
  /\ auth = NoAuth /\ attempts = 0
  /\ challengeOld = FALSE /\ sessionOld = FALSE /\ windowOver = FALSE
  /\ issued = 0 /\ opened = [c \in Challenges |-> {}]
  /\ executed = {} /\ nonces = {} /\ granted = 0 /\ ran = NotRun

Next == \/ NotAvailable \/ TooManyAttempts \/ Challenge
        \/ \E c \in 1..issued, k \in Key: Proof(c, k)
        \/ SecureCommand \/ LinkLost \/ Restart \/ TimePasses

Spec == Init /\ [][Next]_vars
-----------------------------------------------------------------------------
TypeOK ==
  /\ config \in Configs
  /\ auth \in [authenticated : BOOLEAN, pending : BOOLEAN, challenge : 0..MaxChallenges,
               haveRx : BOOLEAN, rx : 0..Half - 1, tx : 0..Top]
  /\ auth.authenticated => ~auth.pending /\ auth.tx >= Half
  /\ attempts \in 0..MaxAttempts
  /\ issued \in 0..MaxChallenges
  /\ opened \in [Challenges -> SUBSET Key]

(* With security enabled a protected command runs only in a session that was
   opened with the key now in the configuration and has not run out, or is a
   config command while rewriting is allowed: also after the configuration
   changed in mid-session, by the session itself or by a rewrite
   (security.c:172-183, 210-211). *)
GateHolds ==
  [][(Enabled /\ ran'.op \in {"config", "other"}) =>
        \/ ran'.op = "config" /\ config.rewrite /\ ran'.session = 0
        \/ /\ ran'.session # 0 /\ config.key \in opened[ran'.session]
           /\ ~(config.timed /\ sessionOld)]_vars

(* A sealed command is executed once, however often and in whichever session
   it is sent (security.c:192-204). *)
NoReplay == [][ran'.session # 0 => <<ran'.session, ran'.counter>> \notin executed]_vars

(* A nonce is never used twice under one key: not by the device, not by the
   device after the host, also when its counter reaches its end
   (security.c:117-119, 139, 146). *)
NonceOnce ==
  /\ nonces \cap executed = {}
  /\ \A n \in nonces: n[1] = auth.challenge /\ auth.authenticated => n[2] < auth.tx

(* No more than MaxAttempts challenges are given out in a window, whatever
   disconnects and failed proofs come between
   (docs/protocol-coverage.md:66). *)
LimitHolds == granted <= MaxAttempts
=============================================================================
