---- MODULE Accounts ----
(***************************************************************************)
(* Registration, login and password reset for one email address: calls of  *)
(* the API that read row by row, outside any transaction, and write what   *)
(* they decided in one.  Hashes are abstracted to the password they are    *)
(* of and whether they have the old form, tokens to the call that made     *)
(* them.                                                                   *)
(***************************************************************************)
EXTENDS Naturals, FiniteSets

CONSTANTS
    Calls,
    Passwords,
    None

Account == [password : Passwords, legacy : BOOLEAN]

ASSUME AccountsConstants == None \notin Calls \cup Passwords \cup Account

VARIABLES
    account, \* the row of the user, or None
    tokens,  \* the token rows: token -> "none", "unused" or "used"
    expired, \* tokens whose time is over
    job, pc, mem, result,
    before,  \* history: <<c, d>> when c had ended before d began
    set,     \* history: the password last set by a registration or a reset
    restored \* history: a login has written an older password back

rows == <<account, tokens>>
work == <<job, pc, mem, result>>
vars == <<rows, expired, work, before, set, restored>>

Job ==
    [op : {"register", "login"}, password : Passwords, token : {None}] \cup
    [op : {"request"}, password : {None}, token : {None}] \cup
    [op : {"confirm"}, password : Passwords, token : Calls]

TypeOK ==
    /\ account \in Account \cup {None}
    /\ tokens \in [Calls -> {"none", "unused", "used"}]
    /\ expired \subseteq Calls
    /\ job \in [Calls -> Job \cup {None}]
    /\ pc \in [Calls -> {"idle", "look up", "collect", "write", "done"}]
    /\ mem \in [Calls -> [user : Account \cup {None}, rows : SUBSET Calls]]
    /\ result \in [Calls -> {"pending", "ok", "refused", "failed"}]
    /\ before \subseteq Calls \X Calls
    /\ set \in Passwords \cup {None}
    /\ account = None => set = None /\ \A t \in Calls : tokens[t] = "none"
    /\ restored \in BOOLEAN

Init ==
    /\ account \in Account \cup {None}
    /\ set = IF account = None THEN None ELSE account.password
    /\ tokens = [t \in Calls |-> "none"]
    /\ expired = {}
    /\ job = [c \in Calls |-> None]
    /\ pc = [c \in Calls |-> "idle"]
    /\ mem = [c \in Calls |-> [user |-> None, rows |-> {}]]
    /\ result = [c \in Calls |-> "pending"]
    /\ before = {}
    /\ restored = FALSE

Done == {c \in Calls : pc[c] = "done"}
Succeeded(op) == {c \in Calls : result[c] = "ok" /\ job[c].op = op}
Live == {t \in Calls : tokens[t] = "unused"} \ expired
Issued == {t \in Calls : tokens[t] # "none"}

\* A form is sent.  A reset is confirmed with a token from an answer.
Submit(c) ==
    /\ pc[c] = "idle"
    /\ \E j \in Job :
        /\ j.op = "confirm" => j.token \in Issued
        /\ job' = [job EXCEPT ![c] = j]
    /\ pc' = [pc EXCEPT ![c] = "look up"]
    /\ before' = before \cup (Done \X {c})
    /\ UNCHANGED <<rows, expired, mem, result, set, restored>>

Finish(c, outcome) ==
    /\ pc' = [pc EXCEPT ![c] = "done"]
    /\ result' = [result EXCEPT ![c] = outcome]

\* What the first look-up must find: no user, the user with the password, or
\* the token.  Mutated: also a token that is used.
AcceptedAnyToken(c) ==
    CASE job[c].op = "register" -> account = None
      [] job[c].op = "login" -> account # None /\ account.password = job[c].password
      [] job[c].op = "request" -> account # None
      [] job[c].op = "confirm" -> job[c].token \in Issued \ expired

Accepted(c) ==
    CASE job[c].op = "register" -> account = None
      [] job[c].op = "login" -> account # None /\ account.password = job[c].password
      [] job[c].op = "request" -> account # None
      [] job[c].op = "confirm" -> job[c].token \in Live

LookUp(c) ==
    /\ pc[c] = "look up"
    /\ IF Accepted(c)
       THEN /\ pc' = [pc EXCEPT ![c] =
                        IF job[c].op \in {"request", "confirm"} THEN "collect" ELSE "write"]
            /\ mem' = [mem EXCEPT ![c].user = account]
            /\ UNCHANGED result
       ELSE /\ Finish(c, IF job[c].op = "request" THEN "ok" ELSE "refused")
            /\ UNCHANGED mem
    /\ UNCHANGED <<rows, expired, job, before, set, restored>>

\* The tokens that the call makes useless: of a request the live ones, of a
\* confirmation its own and all that are unused.
Superseded(c) ==
    IF job[c].op = "request" THEN Live
    ELSE {job[c].token} \cup {t \in Calls : tokens[t] = "unused"}

Collect(c) ==
    /\ pc[c] = "collect"
    /\ mem' = [mem EXCEPT ![c].rows = Superseded(c)]
    /\ pc' = [pc EXCEPT ![c] = "write"]
    /\ UNCHANGED <<rows, expired, job, result, before, set, restored>>

\* The user's row after a login.  Mutated: the row is written as it was read.
LoggedInWhole(c) == mem[c].user

\* Only a hash of the old form is written anew.
LoggedIn(c) ==
    IF mem[c].user.legacy THEN [password |-> job[c].password, legacy |-> FALSE] ELSE account

\* Mutated: the column email has no UNIQUE.
EmailIsUnchecked == TRUE

EmailIsFree == account = None

Written(c) ==
    CASE job[c].op \in {"register", "confirm"} -> [password |-> job[c].password, legacy |-> FALSE]
      [] job[c].op = "login" -> LoggedIn(c)
      [] job[c].op = "request" -> account

\* flush and commit, as one transaction.
Write(c) ==
    /\ pc[c] = "write"
    /\ job[c].op = "register" => EmailIsFree
    /\ account' = Written(c)
    /\ tokens' = [t \in Calls |->
            IF t \in mem[c].rows THEN "used"
            ELSE IF t = c /\ job[c].op = "request" THEN "unused" ELSE tokens[t]]
    /\ set' = IF job[c].op \in {"register", "confirm"} THEN job[c].password ELSE set
    /\ restored' = CASE job[c].op = "login" ->
                            restored \/ (mem[c].user.legacy /\ job[c].password # set)
                     [] job[c].op = "confirm" -> FALSE
                     [] OTHER -> restored
    /\ Finish(c, "ok")
    /\ UNCHANGED <<expired, job, mem, before>>

\* The email is taken by now, the database stays busy or the server stops:
\* the transaction is rolled back.
Abort(c) ==
    /\ pc[c] \notin {"idle", "done"}
    /\ Finish(c, "failed")
    /\ UNCHANGED <<rows, expired, job, mem, before, set, restored>>

\* The half hour of a token is over.
Expire(t) ==
    /\ t \in Issued \ expired
    /\ expired' = expired \cup {t}
    /\ UNCHANGED <<rows, work, before, set, restored>>

Next == \E c \in Calls :
    Submit(c) \/ LookUp(c) \/ Collect(c) \/ Write(c) \/ Abort(c) \/ Expire(c)

Spec == Init /\ [][Next]_vars

-----------------------------------------------------------------------------
\* A registration never takes over an account: of all registrations of an
\* address at most one succeeds, and none that begins when there is a user.
OneRegistration ==
    \A c \in Succeeded("register") : \A d \in Calls \ {c} :
        /\ d \notin Succeeded("register")
        /\ <<d, c>> \in before => result[d] # "ok" \/ job[d].op = "request"

\* tests/test_auth_security.py:97: a login that began after the last reset is
\* accepted with the new password and refused with any other, unless a login
\* that overlapped the reset has written an old hash anew.
LoginFollowsReset ==
    \A c \in Done :
        (/\ job[c].op = "login" /\ ~restored
         /\ \A s \in Succeeded("register") \cup Succeeded("confirm") : <<s, c>> \in before)
        => /\ result[c] = "ok" => job[c].password = set
           /\ result[c] = "refused" => job[c].password # set

\* A token that a later request or a reset has superseded is refused, from
\* then on: two resets with one token both succeed only if they overlap, and
\* so with two tokens whose requests do not.
SupersededIsRefused ==
    \A c \in Succeeded("confirm"), d \in Succeeded("confirm") \cup (Succeeded("request") \cap Issued) :
        ~(<<job[c].token, d>> \in before /\ <<d, c>> \in before)
====
