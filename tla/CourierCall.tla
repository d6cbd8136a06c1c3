---------------------------- MODULE CourierCall -----------------------------
(***************************************************************************)
(* A call to UrbaneBolt on its way through the decorators the container    *)
(* builds: retry around auth-refresh around audit-log around the adapter   *)
(* and its HTTP client. Calls of one process share the client's token.     *)
(*                                                                         *)
(*   token    the client's cached token, named by the login that brought   *)
(*            it: 0 when there is none                                     *)
(*   fresh    is the cached token's expiresAt still ahead?                 *)
(*   logins   how many logins the courier has granted; they are numbered   *)
(*            in the order of their answers                                *)
(*   pc       where each call is                                           *)
(*   attempt  the retry decorator's attempt                                *)
(*   again    is this the second call of the auth-refresh decorator?       *)
(*   hold     the login whose token the call sends                         *)
(*   since    a history variable: how many logins had been granted when    *)
(*            the call dropped the cached token                            *)
(*   error    what the adapter call ended with, "none" for a success       *)
(*   audit    entries in the audit array of the adapter call               *)
(*   owed     HTTP requests made that courier_api_logs has no row of yet   *)
(*   acted    has the courier carried out the operation?                   *)
(*                                                                         *)
(* A login may bring the string an earlier one brought (the courier's      *)
(* tokens are stable for 24 hours), one it refused since included: the     *)
(* client stores what comes back and compares nothing. Strings are left    *)
(* out, and whether the courier accepts the token of a login is its own    *)
(* choice each time: it may lapse, be revoked or be handed out again.      *)
(***************************************************************************)
EXTENDS Naturals

CONSTANTS
  Calls,      \* concurrent operations on the adapter
  Attempts,   \* URBANEBOLT_RETRY_ATTEMPTS
  MaxLogins   \* bound on the logins the courier grants

ASSUME CallAssumption ==
  /\ Attempts \in Nat \ {0}
  /\ MaxLogins \in Nat \ {0}

VARIABLES token, fresh, logins,
          pc, attempt, again, hold, since, error, audit, owed, acted

client  == <<token, fresh, logins>>
vars == <<client, pc, attempt, again, hold, since, error, audit, owed, acted>>

(* COURIER_AUTH_ERROR, the retryable transport errors, the other codes, and *)
(* an exception that is no AppError (the body could not be read).           *)
Errors == {"auth", "transport", "business", "broken"}

Endings == {"ok", "refused", "unavailable", "broken"}

Places == {"idle", "auth", "login", "sent", "left"} \cup Endings

retryable(e) == e = "transport"

Goto(c, at) == pc' = [pc EXCEPT ![c] = at]

-----------------------------------------------------------------------------
(* The client *)

Begin(c) ==
  /\ pc[c] = "idle"
  /\ Goto(c, "auth")
  /\ attempt' = [attempt EXCEPT ![c] = 1]
  /\ UNCHANGED <<client, again, hold, since, error, audit, owed, acted>>

Usable == token # 0 /\ fresh

(* The operation goes out with the token authenticate returned.             *)
Send(c, t) ==
  /\ Goto(c, "sent")
  /\ hold' = [hold EXCEPT ![c] = t]

(* authenticate: the cached token is used while it is there and not about   *)
(* to expire.                                                               *)
UseCachedToken(c) ==
  /\ pc[c] = "auth" /\ Usable
  /\ Send(c, token)
  /\ owed' = [owed EXCEPT ![c] = @ + 1]
  /\ UNCHANGED <<client, attempt, again, since, error, audit, acted>>

Login(c) ==
  /\ pc[c] = "auth" /\ ~Usable
  /\ Goto(c, "login")
  /\ owed' = [owed EXCEPT ![c] = @ + 1]
  /\ UNCHANGED <<client, attempt, again, hold, since, error, audit, acted>>

(* An exception that is no CourierError carries no audit array: what the    *)
(* array held is lost with it.                                              *)
auditOf(c, e) == IF e = "broken" THEN 0 ELSE audit[c] + 1

(* The adapter call ends, with its last request in the audit array.         *)
Leave(c, e) ==
  /\ Goto(c, "left")
  /\ error' = [error EXCEPT ![c] = e]
  /\ audit' = [audit EXCEPT ![c] = auditOf(c, e)]

LoginGranted(c) ==
  /\ pc[c] = "login" /\ logins < MaxLogins
  /\ logins' = logins + 1
  /\ token' = logins + 1 /\ fresh' = TRUE
  /\ Send(c, logins + 1)
  /\ audit' = [audit EXCEPT ![c] = @ + 1]
  /\ owed' = [owed EXCEPT ![c] = @ + 1]
  /\ UNCHANGED <<attempt, again, since, error, acted>>

LoginFails(c) ==
  /\ pc[c] = "login"
  /\ \E e \in Errors \ {"business"} : Leave(c, e)
  /\ UNCHANGED <<client, attempt, again, hold, since, owed, acted>>

(* The courier carries the operation out unless it refuses the credentials; *)
(* whatever goes wrong on the way back, it has.                             *)
Carried(c) ==
  /\ pc[c] = "sent"
  /\ acted' = [acted EXCEPT ![c] = TRUE]
  /\ \E e \in (Errors \ {"auth"}) \cup {"none"} : Leave(c, e)
  /\ UNCHANGED <<client, attempt, again, hold, since, owed>>

(* Not carried out: the credentials are refused (any 401, 403 or body with  *)
(* a "detail"), the order is refused, or the request or its answer is lost. *)
NotCarried(c) ==
  /\ pc[c] = "sent"
  /\ \E e \in Errors : Leave(c, e)
  /\ UNCHANGED <<client, attempt, again, hold, since, owed, acted>>

-----------------------------------------------------------------------------
(* The decorators, innermost first *)

recordMany(c) == owed' = [owed EXCEPT ![c] = @ - audit[c]]

(* Mutant: only calls that succeed are written to the log.                  *)
PersistSuccessOnly(c) ==
  /\ IF error[c] = "none" THEN recordMany(c) ELSE UNCHANGED owed
  /\ audit' = [audit EXCEPT ![c] = 0]

(* audit-log: the entries of the adapter call are inserted, then its result *)
(* goes to the next decorator. An insert that fails is reported and the     *)
(* call goes on; such rows count as written here.                           *)
Persist(c) ==
  /\ recordMany(c)
  /\ audit' = [audit EXCEPT ![c] = 0]

(* The adapter is called another time.                                      *)
CallOnceMore(c) ==
  /\ error' = [error EXCEPT ![c] = "none"]
  /\ Goto(c, "auth")

(* Mutant: the token stays in the cache.                                    *)
RefreshKeepsToken(c) ==
  /\ pc[c] = "left" /\ error[c] = "auth" /\ ~again[c]
  /\ Persist(c)
  /\ again' = [again EXCEPT ![c] = TRUE]
  /\ since' = [since EXCEPT ![c] = logins]
  /\ CallOnceMore(c)
  /\ UNCHANGED <<client, attempt, hold, acted>>

(* Mutant: the second call may be refreshed in turn.                        *)
RefreshForEver(c) ==
  /\ pc[c] = "left" /\ error[c] = "auth" /\ ~again[c]
  /\ Persist(c)
  /\ token' = 0
  /\ CallOnceMore(c)
  /\ UNCHANGED <<fresh, logins, attempt, again, hold, since, acted>>

(* auth-refresh: drop the token the process has by now, whoever stored it,  *)
(* and call once more.                                                      *)
Refresh(c) ==
  /\ pc[c] = "left" /\ error[c] = "auth" /\ ~again[c]
  /\ Persist(c)
  /\ token' = 0
  /\ again' = [again EXCEPT ![c] = TRUE]
  /\ since' = [since EXCEPT ![c] = logins]
  /\ CallOnceMore(c)
  /\ UNCHANGED <<fresh, logins, attempt, hold, acted>>

(* The auth-refresh decorator lets the result through.                      *)
Settled(c) == pc[c] = "left" /\ ~(error[c] = "auth" /\ ~again[c])

(* Mutant: one attempt too many.                                            *)
RetryOnceMore(c) ==
  /\ Settled(c) /\ retryable(error[c]) /\ attempt[c] <= Attempts
  /\ Persist(c)
  /\ attempt' = [attempt EXCEPT ![c] = @ + 1]
  /\ again' = [again EXCEPT ![c] = FALSE]
  /\ since' = [since EXCEPT ![c] = 0]
  /\ CallOnceMore(c)
  /\ UNCHANGED <<client, hold, acted>>

(* retry: after a pause, the whole call again.                              *)
Retry(c) ==
  /\ Settled(c) /\ retryable(error[c]) /\ attempt[c] < Attempts
  /\ Persist(c)
  /\ attempt' = [attempt EXCEPT ![c] = @ + 1]
  /\ again' = [again EXCEPT ![c] = FALSE]
  /\ since' = [since EXCEPT ![c] = 0]
  /\ CallOnceMore(c)
  /\ UNCHANGED <<client, hold, acted>>

EndingOf(e) ==
  CASE e = "none"      -> "ok"
    [] e = "transport" -> "unavailable"
    [] e = "broken"    -> "broken"
    [] OTHER           -> "refused"

(* The locals of a call that has returned.                                  *)
Forget(c) ==
  /\ again' = [again EXCEPT ![c] = FALSE]
  /\ hold' = [hold EXCEPT ![c] = 0]
  /\ since' = [since EXCEPT ![c] = 0]
  /\ error' = [error EXCEPT ![c] = "none"]

(* Mutant: a retryable error ends the call at once.                         *)
ReturnEarly(c) ==
  /\ Settled(c)
  /\ Persist(c)
  /\ Goto(c, EndingOf(error[c]))
  /\ Forget(c)
  /\ UNCHANGED <<client, attempt, acted>>

Return(c) ==
  /\ Settled(c) /\ (retryable(error[c]) => attempt[c] = Attempts)
  /\ Persist(c)
  /\ Goto(c, EndingOf(error[c]))
  /\ Forget(c)
  /\ UNCHANGED <<client, attempt, acted>>

-----------------------------------------------------------------------------
(* Time *)

Lapse ==
  /\ Usable
  /\ fresh' = FALSE
  /\ UNCHANGED <<token, logins, pc, attempt, again, hold, since, error, audit, owed, acted>>

-----------------------------------------------------------------------------
Init ==
  /\ token = 0 /\ fresh = FALSE /\ logins = 0
  /\ pc = [c \in Calls |-> "idle"]
  /\ attempt = [c \in Calls |-> 0]
  /\ again = [c \in Calls |-> FALSE]
  /\ hold = [c \in Calls |-> 0]
  /\ since = [c \in Calls |-> 0]
  /\ error = [c \in Calls |-> "none"]
  /\ audit = [c \in Calls |-> 0]
  /\ owed = [c \in Calls |-> 0]
  /\ acted = [c \in Calls |-> FALSE]

Step(c) ==
  \/ UseCachedToken(c) \/ Login(c) \/ LoginGranted(c) \/ LoginFails(c)
  \/ Carried(c) \/ NotCarried(c)
  \/ Refresh(c) \/ Retry(c) \/ Return(c)

Next == (\E c \in Calls : Begin(c) \/ Step(c)) \/ Lapse

Spec == Init /\ [][Next]_vars

(* Requests time out and backoff timers fire.                               *)
FairSpec == Spec /\ \A c \in Calls : WF_vars(Step(c))

-----------------------------------------------------------------------------
(* Properties *)

TypeOK ==
  /\ token \in 0..MaxLogins /\ fresh \in BOOLEAN
  /\ logins \in 0..MaxLogins
  /\ pc \in [Calls -> Places]
  /\ attempt \in [Calls -> 0..Attempts]
  /\ again \in [Calls -> BOOLEAN]
  /\ hold \in [Calls -> 0..MaxLogins] /\ since \in [Calls -> 0..MaxLogins]
  /\ error \in [Calls -> Errors \cup {"none"}]
  /\ audit \in [Calls -> 0..2]
  /\ owed \in [Calls -> 0..2]
  /\ acted \in [Calls -> BOOLEAN]

(* "Every call, including retries" is in courier_api_logs (DESIGN.md:126):  *)
(* once an adapter call is over, whether it is tried again or not, there is *)
(* a row for each HTTP request it made, the one for a token included. A call*)
(* that ends in an exception of the runtime is not covered by this.         *)
EveryRequestIsLogged ==
  \A c \in Calls :
    pc[c] \in ({"auth"} \cup Endings) \ {"broken"} => owed[c] = 0

(* What goes out after a refusal rests on a login that was answered after   *)
(* the call dropped the token, its own or that of a call beside it: nothing *)
(* that was in the cache by then is sent by it again, though other calls    *)
(* log in, are refused and drop the token they share at the same time. (The *)
(* courier may still have answered that login with the string it refused.)  *)
LoggedInSinceRefusal ==
  \A c \in Calls : again[c] /\ pc[c] = "sent" => hold[c] > since[c]

(* A call ends, whatever the courier does to it and its token.              *)
CallsEnd == \A c \in Calls : pc[c] # "idle" ~> pc[c] \in Endings

(* The abstract call this one implements.                                   *)
Contract == INSTANCE CallContract WITH
  phase <- [c \in Calls |-> IF pc[c] \in Endings \cup {"idle"} THEN pc[c] ELSE "calling"],
  try <- attempt

(* The decorators and the client together keep the contract the services    *)
(* rely on.                                                                 *)
KeepsContract == Contract!CSpec

=============================================================================
