---- MODULE AccessProofs ----
(***************************************************************************)
(* Theorems about who gets in and how often: Accounts, for any number of   *)
(* calls and passwords, and RateLimiter, for any addresses, limits,        *)
(* window, grain of time and bound of the clock.                           *)
(*                                                                         *)
(* A call relies on the calls recorded as before it having ended, so that  *)
(* their rows can no longer change: a token that they have issued is used  *)
(* or expired, or is among the rows that the call has collected.           *)
(***************************************************************************)
EXTENDS Accounts, RateLimiter, SequenceTheorems, TLAPS

\* A call that has ended cannot begin, and one ends only with an answer.
Ordered ==
    /\ \A c \in Calls : pc[c] # "idle" => job[c] \in Job
    /\ \A c \in Calls : result[c] # "pending" => pc[c] = "done"
    /\ \A c, d \in Calls : <<c, d>> \in before => pc[c] = "done" /\ pc[d] # "idle"
    /\ \A t \in Calls : tokens[t] # "none" => pc[t] = "done"

\* A call past its look-up has found what it looked for, and users stay.
HasLookedUp ==
    \A c \in Calls :
        /\ pc[c] = "collect" => job[c].op \in {"request", "confirm"}
        /\ pc[c] \in {"collect", "write"} /\ job[c].op # "register" => account # None
        /\ pc[c] \in {"collect", "write"} /\ job[c].op = "login" => mem[c].user \in Account
        /\ result[c] = "ok" /\ job[c].op # "request" => account # None

\* The calls whose success makes the older tokens useless.
Superseding(d) ==
    /\ result[d] = "ok"
    /\ job[d].op = "confirm" \/ (job[d].op = "request" /\ tokens[d] # "none")

\* Only issued tokens are ever named.
TokensIssued ==
    \A c \in Calls :
        /\ pc[c] # "idle" /\ job[c].op = "confirm" => tokens[job[c].token] # "none"
        /\ \A t \in mem[c].rows : tokens[t] # "none"

\* A live token of a call that ended before d began is among d's rows, ...
Collected ==
    \A d \in Calls, t \in Live :
        (pc[d] = "write" /\ job[d].op \in {"request", "confirm"} /\ <<t, d>> \in before)
            => t \in mem[d].rows

\* ... no longer live when d has succeeded, ...
TokensSuperseded ==
    \A d \in Calls, t \in Live : Superseding(d) => <<t, d>> \notin before

\* ... and so not accepted from a call that begins after d.
Confirming(c) == job[c].op = "confirm" /\ (pc[c] \in {"collect", "write"} \/ result[c] = "ok")

ConfirmsLive ==
    \A c, d \in Calls :
        (Confirming(c) /\ Superseding(d) /\ <<d, c>> \in before)
            => <<job[c].token, d>> \notin before

\* OneRegistration, call by call.
RegisteredOnce ==
    \A c, d \in Calls :
        (result[c] = "ok" /\ job[c].op = "register" /\ result[d] = "ok" /\ c # d) =>
            /\ job[d].op # "register"
            /\ <<d, c>> \in before => job[d].op = "request"

\* Every call that has set the password had ended before c began.
FollowsAll(c) ==
    \A s \in Calls : result[s] = "ok" /\ job[s].op \in {"register", "confirm"} => <<s, c>> \in before

PasswordIsSet ==
    /\ account # None /\ ~restored => account.password = set
    /\ \A c \in Calls :
        (pc[c] # "idle" /\ job[c].op = "login" /\ ~restored /\ FollowsAll(c)) =>
            /\ pc[c] = "write" \/ result[c] = "ok" => job[c].password = set
            /\ result[c] = "refused" => job[c].password # set

IInv ==
    /\ TypeOK /\ Ordered /\ HasLookedUp /\ TokensIssued /\ RegisteredOnce
    /\ Collected /\ TokensSuperseded /\ ConfirmsLive /\ PasswordIsSet

-----------------------------------------------------------------------------
\* What the fields of a job are.
LEMMA JobFields ==
    ASSUME NEW j \in Job
    PROVE  /\ j.op \in {"register", "login", "request", "confirm"}
           /\ j.op # "request" => j.password \in Passwords
           /\ j.op = "confirm" => j.token \in Calls
BY DEF Job

\* A row of the users table is not None.
LEMMA AccountFields ==
    ASSUME NEW a \in Account
    PROVE  a # None /\ a.password \in Passwords /\ a.legacy \in BOOLEAN
BY AccountsConstants DEF Account

\* A new password makes a row of the new form.
LEMMA NewAccount ==
    ASSUME NEW p \in Passwords
    PROVE  [password |-> p, legacy |-> FALSE] \in Account
BY DEF Account

\* The invariant holds of every user table a server can start with.
LEMMA Initially == Init => IInv
<1> SUFFICES ASSUME Init PROVE IInv
  OBVIOUS
<1> USE DEF Init
<1>1. TypeOK
  BY AccountFields DEF TypeOK
<1>2. Ordered /\ HasLookedUp /\ TokensIssued
  BY DEF Ordered, HasLookedUp, TokensIssued
<1>3. RegisteredOnce
  BY DEF RegisteredOnce
<1>4. Collected /\ TokensSuperseded /\ ConfirmsLive
  BY DEF Collected, TokensSuperseded, ConfirmsLive, Live, Superseding
<1>5. PasswordIsSet
  BY DEF PasswordIsSet
<1> QED
  BY <1>1, <1>2, <1>3, <1>4, <1>5 DEF IInv

\* The jobs of calls that have begun.
LEMMA Jobs ==
    ASSUME Ordered, NEW d \in Calls, pc[d] # "idle"
    PROVE  /\ job[d].op \in {"register", "login", "request", "confirm"}
           /\ job[d].op # "request" => job[d].password \in Passwords
           /\ job[d].op = "confirm" => job[d].token \in Calls
BY JobFields DEF Ordered

\* A call that begins: it is before no other, and all that have ended are before it.
LEMMA SubmitKeeps ==
    ASSUME IInv, NEW c \in Calls, Submit(c) PROVE IInv'
<1>1. /\ TypeOK /\ Ordered /\ HasLookedUp /\ TokensIssued /\ RegisteredOnce
      /\ Collected /\ TokensSuperseded /\ ConfirmsLive /\ PasswordIsSet
  BY DEF IInv
<1>2. PICK j \in Job :
        /\ j.op = "confirm" => j.token \in Issued
        /\ job' = [job EXCEPT ![c] = j]
  BY DEF Submit
<1>3. /\ pc[c] = "idle" /\ result[c] = "pending" /\ tokens[c] = "none"
      /\ pc'[c] = "look up" /\ job'[c] = j
      /\ \A d \in Calls : d # c => pc'[d] = pc[d] /\ job'[d] = job[d]
      /\ UNCHANGED <<account, tokens, expired, mem, result, set, restored>>
      /\ job' \in [Calls -> Job \cup {None}]
      /\ pc' \in [Calls -> {"idle", "look up", "collect", "write", "done"}]
  BY <1>1, <1>2 DEF TypeOK, Ordered, Submit, rows
<1>4. \A d, e \in Calls : <<d, e>> \in before' <=> <<d, e>> \in before \/ (e = c /\ pc[d] = "done")
  BY DEF Submit, Done
<1>5. \A d \in Calls : <<c, d>> \notin before /\ <<d, c>> \notin before
  BY <1>1, <1>3 DEF Ordered
<1>6. TypeOK'
  <2>1. before' \subseteq Calls \X Calls
    BY <1>1 DEF Submit, TypeOK, Done
  <2> QED
    BY <1>1, <1>3, <2>1 DEF TypeOK
<1>7. Ordered'
  BY <1>1, <1>3, <1>4, ZenonT(30) DEF Ordered
<1>8. HasLookedUp' /\ TokensIssued'
  <2>1. HasLookedUp'
    BY <1>1, <1>3 DEF HasLookedUp
  <2>2. j.op = "confirm" => tokens[j.token] # "none"
    BY <1>2 DEF Issued
  <2>3. TokensIssued'
    BY <1>1, <1>3, <2>2 DEF TokensIssued
  <2> QED
    BY <2>1, <2>3
<1>9. RegisteredOnce'
  <2>1. \A d \in Calls : result'[d] = "ok" => d # c /\ result[d] = "ok" /\ job'[d] = job[d]
    BY <1>3
  <2>2. \A t, d : <<t, d>> \in before' /\ d # c => <<t, d>> \in before
    BY DEF Submit
  <2> QED
    BY <1>1, <2>1, <2>2 DEF RegisteredOnce
<1>10. Collected' /\ TokensSuperseded' /\ ConfirmsLive'
  <2>1. Live' = Live
    BY <1>3 DEF Live
  <2>2. \A d \in Calls : Superseding(d)' <=> Superseding(d)
    BY <1>3 DEF Superseding
  <2>3. ~Superseding(c) /\ c \notin Live
    BY <1>3 DEF Superseding, Live
  <2>4. \A t, d : <<t, d>> \in before' /\ d # c => <<t, d>> \in before
    BY DEF Submit
  <2>5. Collected'
    BY <1>1, <1>3, <2>4, <2>1 DEF Collected
  <2>6. TokensSuperseded'
    BY <1>1, <2>4, <2>1, <2>2, <2>3 DEF TokensSuperseded
  <2>7. \A d \in Calls : Confirming(d)' <=> (d # c /\ Confirming(d))
    BY <1>3 DEF Confirming
  <2>8. ConfirmsLive'
    BY <1>1, <1>3, <2>2, <2>3, <2>4, <2>7 DEF ConfirmsLive
  <2> QED
    BY <2>5, <2>6, <2>8
<1>11. PasswordIsSet'
  <2>1. \A d \in Calls : d # c => (FollowsAll(d)' <=> FollowsAll(d))
    BY <1>3, <1>4 DEF FollowsAll
  <2> QED
    BY <1>1, <1>3, <2>1 DEF PasswordIsSet
<1> QED
  BY <1>6, <1>7, <1>8, <1>9, <1>10, <1>11 DEF IInv

\* A look-up: what it accepts is still so when the call writes, or harmless.
LEMMA LookUpKeeps ==
    ASSUME IInv, NEW c \in Calls, LookUp(c) PROVE IInv'
<1>1. /\ TypeOK /\ Ordered /\ HasLookedUp /\ TokensIssued /\ RegisteredOnce
      /\ Collected /\ TokensSuperseded /\ ConfirmsLive /\ PasswordIsSet
  BY DEF IInv
<1>2. /\ pc[c] = "look up" /\ result[c] = "pending" /\ tokens[c] = "none"
      /\ UNCHANGED <<account, tokens, expired, job, before, set, restored>>
  BY <1>1 DEF LookUp, rows, TypeOK, Ordered
<1>3. /\ job[c].op \in {"register", "login", "request", "confirm"}
      /\ job[c].op # "request" => job[c].password \in Passwords
      /\ job[c].op = "confirm" => job[c].token \in Calls
  BY <1>1, <1>2, Jobs
<1>4. CASE Accepted(c)
  <2>1. /\ pc' = [pc EXCEPT ![c] =
                    IF job[c].op \in {"request", "confirm"} THEN "collect" ELSE "write"]
        /\ mem' = [mem EXCEPT ![c].user = account]
        /\ result' = result
    BY <1>4 DEF LookUp
  <2>2. /\ pc'[c] \in {"collect", "write"}
        /\ pc'[c] = "collect" => job[c].op \in {"request", "confirm"}
        /\ pc'[c] = "write" => job[c].op \in {"register", "login"}
        /\ mem'[c].user = account /\ UNCHANGED result
        /\ \A d \in Calls : d # c => pc'[d] = pc[d] /\ mem'[d] = mem[d]
    BY <1>1, <1>3, <2>1, ZenonT(30) DEF TypeOK
  <2>3. mem'[c].rows = mem[c].rows
    <3>1. mem'[c] = [mem[c] EXCEPT !.user = account]
      BY <1>1, <2>1 DEF TypeOK
    <3>2. mem[c] \in [user : Account \cup {None}, rows : SUBSET Calls]
      BY <1>1 DEF TypeOK
    <3> QED
      BY <3>1, <3>2
  <2>4. TypeOK'
    BY <1>1, <1>2, <2>1, ZenonT(30) DEF TypeOK
  <2>5. Ordered'
    BY <1>1, <1>2, <2>2 DEF Ordered
  <2>6. /\ job[c].op # "register" => account # None
        /\ job[c].op = "login" => account \in Account /\ account.password = job[c].password
        /\ job[c].op = "confirm" => job[c].token \in Live
    <3>1. CASE job[c].op = "confirm"
      BY <1>1, <1>3, <1>4, <3>1 DEF Accepted, TypeOK, Live
    <3>2. CASE job[c].op = "login"
      BY <1>1, <1>3, <1>4, <3>2 DEF Accepted, TypeOK
    <3>3. CASE job[c].op \in {"register", "request"}
      BY <1>1, <1>3, <1>4, <3>3 DEF Accepted
    <3> QED
      BY <1>3, <3>1, <3>2, <3>3
  <2>7. HasLookedUp' /\ TokensIssued'
    <3>1. HasLookedUp'
      BY <1>1, <1>2, <1>3, <2>2, <2>6 DEF HasLookedUp
    <3>2. TokensIssued'
      BY <1>1, <1>2, <2>2, <2>3 DEF TokensIssued
    <3> QED
      BY <3>1, <3>2
  <2>8. RegisteredOnce'
    BY <1>1, <1>2, <2>2 DEF RegisteredOnce
  <2>9. Collected' /\ TokensSuperseded' /\ ConfirmsLive'
    <3>1. Live' = Live
      BY <1>2 DEF Live
    <3>2. \A d \in Calls : Superseding(d)' <=> Superseding(d)
      BY <1>2, <2>1 DEF Superseding
    <3>3. job[c].op = "confirm" =>
            \A d \in Calls : Superseding(d) => <<job[c].token, d>> \notin before
      BY <1>1, <2>6 DEF TokensSuperseded
    <3> QED
      BY <1>1, <1>2, <2>2, <3>1, <3>2, <3>3 DEF Collected, TokensSuperseded, ConfirmsLive, Confirming
  <2>10. PasswordIsSet'
    <3>1. \A d \in Calls : FollowsAll(d)' <=> FollowsAll(d)
      BY <1>2, <2>1 DEF FollowsAll
    <3> QED
      BY <1>1, <1>2, <2>1, <2>2, <2>6, <3>1 DEF PasswordIsSet, HasLookedUp
  <2> QED
    BY <2>4, <2>5, <2>7, <2>8, <2>9, <2>10 DEF IInv
<1>5. CASE ~Accepted(c)
  <2>1. /\ pc' = [pc EXCEPT ![c] = "done"]
        /\ result' = [result EXCEPT ![c] = IF job[c].op = "request" THEN "ok" ELSE "refused"]
        /\ mem' = mem
    BY <1>5 DEF LookUp, Finish
  <2>2. /\ pc'[c] = "done"
        /\ result'[c] = "ok" => job[c].op = "request"
        /\ result'[c] \in {"ok", "refused"} /\ UNCHANGED mem
        /\ \A d \in Calls : d # c => pc'[d] = pc[d] /\ result'[d] = result[d]
    BY <1>1, <2>1 DEF TypeOK
  <2>3. TypeOK'
    BY <1>1, <1>2, <2>1 DEF TypeOK
  <2>4. Ordered'
    BY <1>1, <1>2, <2>2 DEF Ordered
  <2>5. HasLookedUp' /\ TokensIssued'
    BY <1>1, <1>2, <2>2 DEF HasLookedUp, TokensIssued
  <2>6. RegisteredOnce'
    BY <1>1, <1>2, <2>2 DEF RegisteredOnce
  <2>7. Collected' /\ TokensSuperseded' /\ ConfirmsLive'
    <3>1. Live' = Live
      BY <1>2 DEF Live
    <3>2. \A d \in Calls : Superseding(d)' <=> Superseding(d)
      BY <1>2, <2>2 DEF Superseding
    <3> QED
      BY <1>1, <1>2, <1>3, <2>2, <3>1, <3>2 DEF Collected, TokensSuperseded, ConfirmsLive, Confirming
  <2>8. PasswordIsSet'
    <3>1. \A d \in Calls : FollowsAll(d)' <=> FollowsAll(d)
      BY <1>2, <2>2 DEF FollowsAll
    <3>2. job[c].op = "login" /\ ~restored => job[c].password # set
      <4>1. CASE account = None
        <5>1. set = None
          BY <1>1, <4>1 DEF TypeOK
        <5>2. job[c].op = "login" => job[c].password # None
          BY <1>3, AccountsConstants
        <5> QED
          BY <5>1, <5>2
      <4>2. CASE account # None
        BY <1>1, <1>3, <1>5, <4>2 DEF PasswordIsSet, Accepted
      <4> QED
        BY <4>1, <4>2
    <3> QED
      BY <1>1, <1>2, <2>2, <3>1, <3>2 DEF PasswordIsSet
  <2> QED
    BY <2>3, <2>4, <2>5, <2>6, <2>7, <2>8 DEF IInv
<1> QED
  BY <1>4, <1>5

\* The tokens that a call will make useless are those live now, and more.
LEMMA CollectKeeps ==
    ASSUME IInv, NEW c \in Calls, Collect(c) PROVE IInv'
<1>1. /\ TypeOK /\ Ordered /\ HasLookedUp /\ TokensIssued /\ RegisteredOnce
      /\ Collected /\ TokensSuperseded /\ ConfirmsLive /\ PasswordIsSet
  BY DEF IInv
<1>2. /\ pc[c] = "collect" /\ result[c] = "pending"
      /\ UNCHANGED <<account, tokens, expired, job, result, before, set, restored>>
  BY <1>1 DEF Collect, rows, TypeOK, Ordered
<1>3. /\ job[c].op \in {"request", "confirm"}
      /\ job[c].op = "confirm" => job[c].token \in Calls
  BY <1>1, <1>2, Jobs DEF HasLookedUp
<1>4. Superseded(c) \in SUBSET Calls
  BY <1>3 DEF Superseded, Live
<1>5. /\ pc'[c] = "write" /\ mem'[c].rows = Superseded(c)
      /\ \A d \in Calls : d # c => pc'[d] = pc[d] /\ mem'[d] = mem[d]
      /\ pc' \in [Calls -> {"idle", "look up", "collect", "write", "done"}]
      /\ mem' \in [Calls -> [user : Account \cup {None}, rows : SUBSET Calls]]
  <2>1. /\ mem' = [mem EXCEPT ![c] = [mem[c] EXCEPT !.rows = Superseded(c)]]
        /\ pc' = [pc EXCEPT ![c] = "write"]
    BY DEF Collect
  <2>2. /\ [mem[c] EXCEPT !.rows = Superseded(c)] \in [user : Account \cup {None}, rows : SUBSET Calls]
        /\ [mem[c] EXCEPT !.rows = Superseded(c)].rows = Superseded(c)
    <3>1. mem[c] \in [user : Account \cup {None}, rows : SUBSET Calls]
      BY <1>1 DEF TypeOK
    <3> QED
      BY <1>4, <3>1
  <2>3. /\ mem \in [Calls -> [user : Account \cup {None}, rows : SUBSET Calls]]
        /\ pc \in [Calls -> {"idle", "look up", "collect", "write", "done"}]
    BY <1>1 DEF TypeOK
  <2> QED
    BY <2>1, <2>2, <2>3
<1>6. TypeOK'
  BY <1>1, <1>2, <1>5 DEF TypeOK
<1>7. Ordered'
  BY <1>1, <1>2, <1>5 DEF Ordered
<1>8. HasLookedUp' /\ TokensIssued'
  BY <1>1, <1>2, <1>3, <1>5, ZenonT(30) DEF HasLookedUp, TokensIssued, Superseded, Live
<1>9. RegisteredOnce'
  BY <1>1, <1>2 DEF RegisteredOnce
<1>10. Live' = Live /\ \A t \in Live : t \in Superseded(c)
  BY <1>1, <1>2 DEF Live, Superseded
<1>11. \A d \in Calls : Superseding(d)' <=> Superseding(d)
  BY <1>2 DEF Superseding
<1>12. Collected' /\ TokensSuperseded' /\ ConfirmsLive'
  BY <1>1, <1>2, <1>5, <1>10, <1>11 DEF Collected, TokensSuperseded, ConfirmsLive, Confirming
<1>13. \A d \in Calls : FollowsAll(d)' <=> FollowsAll(d)
  BY <1>2 DEF FollowsAll
<1>14. PasswordIsSet'
  BY <1>1, <1>2, <1>3, <1>5, <1>13 DEF PasswordIsSet
<1> QED
  BY <1>6, <1>7, <1>8, <1>9, <1>12, <1>14 DEF IInv

\* A call that fails has changed nothing and supersedes nothing.
LEMMA AbortKeeps ==
    ASSUME IInv, NEW c \in Calls, Abort(c) PROVE IInv'
<1>1. /\ TypeOK /\ Ordered /\ HasLookedUp /\ TokensIssued /\ RegisteredOnce
      /\ Collected /\ TokensSuperseded /\ ConfirmsLive /\ PasswordIsSet
  BY DEF IInv
<1>2. /\ pc[c] # "idle" /\ pc[c] # "done" /\ result[c] = "pending"
      /\ UNCHANGED <<account, tokens, expired, job, mem, before, set, restored>>
  BY <1>1 DEF Abort, rows, TypeOK, Ordered
<1>3. /\ pc'[c] = "done" /\ result'[c] = "failed"
      /\ \A d \in Calls : d # c => pc'[d] = pc[d] /\ result'[d] = result[d]
      /\ pc' \in [Calls -> {"idle", "look up", "collect", "write", "done"}]
      /\ result' \in [Calls -> {"pending", "ok", "refused", "failed"}]
  BY <1>1 DEF Abort, Finish, TypeOK
<1>4. TypeOK'
  BY <1>1, <1>2, <1>3 DEF TypeOK
<1>5. Ordered'
  <2>1. \A d \in Calls : (pc[d] = "done" => pc'[d] = "done") /\ (pc[d] = "idle" <=> pc'[d] = "idle")
    BY <1>2, <1>3
  <2> QED
    BY <1>1, <1>2, <1>3, <2>1 DEF Ordered
<1>6. HasLookedUp' /\ TokensIssued'
  BY <1>1, <1>2, <1>3, ZenonT(30) DEF HasLookedUp, TokensIssued
<1>7. RegisteredOnce'
  BY <1>1, <1>2, <1>3 DEF RegisteredOnce
<1>8. Live' = Live
  BY <1>2 DEF Live
<1>9. \A d \in Calls : Superseding(d)' <=> Superseding(d)
  BY <1>2, <1>3 DEF Superseding
<1>10. Collected' /\ TokensSuperseded' /\ ConfirmsLive'
  BY <1>1, <1>2, <1>3, <1>8, <1>9 DEF Collected, TokensSuperseded, ConfirmsLive, Confirming
<1>11. \A d \in Calls : FollowsAll(d)' <=> FollowsAll(d)
  BY <1>2, <1>3 DEF FollowsAll
<1>12. PasswordIsSet'
  BY <1>1, <1>2, <1>3, <1>11 DEF PasswordIsSet
<1> QED
  BY <1>4, <1>5, <1>6, <1>7, <1>10, <1>12 DEF IInv

\* Fewer tokens are live.
LEMMA ExpireKeeps ==
    ASSUME IInv, NEW t \in Calls, Expire(t) PROVE IInv'
<1>1. /\ TypeOK /\ Ordered /\ HasLookedUp /\ TokensIssued /\ RegisteredOnce
      /\ Collected /\ TokensSuperseded /\ ConfirmsLive /\ PasswordIsSet
  BY DEF IInv
<1>2. /\ UNCHANGED <<account, tokens, job, pc, mem, result, before, set, restored>>
      /\ expired' = expired \cup {t}
  BY DEF Expire, rows, work
<1>3. TypeOK'
  BY <1>1, <1>2 DEF TypeOK
<1>4. Ordered' /\ HasLookedUp' /\ TokensIssued' /\ RegisteredOnce' /\ PasswordIsSet'
  BY <1>1, <1>2 DEF Ordered, HasLookedUp, TokensIssued, RegisteredOnce, PasswordIsSet, FollowsAll
<1>5. Live' \subseteq Live
  BY <1>2 DEF Live
<1>6. Collected' /\ TokensSuperseded' /\ ConfirmsLive'
  BY <1>1, <1>2, <1>5 DEF Collected, TokensSuperseded, ConfirmsLive, Confirming, Superseding
<1> QED
  BY <1>3, <1>4, <1>6 DEF IInv

\* The transaction of a call, with what it makes of the row, the tokens and the
\* histories.
LEMMA WriteKeeps ==
    ASSUME IInv, NEW c \in Calls, Write(c) PROVE IInv'
<1>1. /\ TypeOK /\ Ordered /\ HasLookedUp /\ TokensIssued /\ RegisteredOnce
      /\ Collected /\ TokensSuperseded /\ ConfirmsLive /\ PasswordIsSet
  BY DEF IInv
<1>2. /\ pc[c] = "write" /\ result[c] = "pending" /\ tokens[c] = "none"
      /\ job[c].op = "register" => account = None
      /\ UNCHANGED <<expired, job, mem, before>>
  BY <1>1 DEF Write, EmailIsFree, TypeOK, Ordered
<1>3. /\ job[c].op \in {"register", "login", "request", "confirm"}
      /\ job[c].op # "request" => job[c].password \in Passwords
      /\ job[c].op = "confirm" => job[c].token \in Calls
  BY <1>1, <1>2, Jobs
<1>4. /\ job[c].op # "register" => account \in Account
      /\ job[c].op = "login" => mem[c].user \in Account
  BY <1>1, <1>2 DEF HasLookedUp, TypeOK
<1>5. /\ pc'[c] = "done" /\ result'[c] = "ok"
      /\ \A d \in Calls : d # c => pc'[d] = pc[d] /\ result'[d] = result[d]
      /\ pc' \in [Calls -> {"idle", "look up", "collect", "write", "done"}]
      /\ result' \in [Calls -> {"pending", "ok", "refused", "failed"}]
  BY <1>1 DEF Write, Finish, TypeOK
<1>6. /\ \A t \in Calls : tokens'[t] =
            IF t \in mem[c].rows THEN "used"
            ELSE IF t = c /\ job[c].op = "request" THEN "unused" ELSE tokens[t]
      /\ tokens' \in [Calls -> {"none", "unused", "used"}]
  BY <1>1 DEF Write, TypeOK
<1>7. \A t \in Calls : t # c => (tokens'[t] = "none" <=> tokens[t] = "none")
  BY <1>1, <1>6 DEF TokensIssued
<1>8. \A d \in Calls : <<c, d>> \notin before
  BY <1>1, <1>2 DEF Ordered
\* What each operation writes to the user's row, and the histories.
<1>9. job[c].op \in {"register", "confirm"} =>
        /\ account' \in Account /\ account'.password = job[c].password
        /\ set' = job[c].password /\ restored' \in BOOLEAN
  BY <1>1, NewAccount, <1>3 DEF Write, Written, TypeOK
<1>10. job[c].op = "request" => account' = account /\ set' = set /\ restored' = restored
  BY DEF Write, Written
<1>11. job[c].op = "login" =>
        /\ account' \in Account /\ set' = set /\ restored' \in BOOLEAN
        /\ ~restored' => ~restored /\ (account'.password = set \/ account' = account)
  <2>1. SUFFICES ASSUME job[c].op = "login"
                 PROVE  /\ account' \in Account /\ set' = set /\ restored' \in BOOLEAN
                        /\ ~restored' => ~restored /\ (account'.password = set \/ account' = account)
    OBVIOUS
  <2>2. /\ account' = LoggedIn(c) /\ set' = set
        /\ restored' = (restored \/ (mem[c].user.legacy /\ job[c].password # set))
    BY <2>1 DEF Write, Written
  <2>3. /\ mem[c].user.legacy \in BOOLEAN /\ restored \in BOOLEAN
        /\ account \in Account /\ job[c].password \in Passwords
    BY <1>1, <1>3, <1>4, <2>1, AccountFields DEF TypeOK
  <2>4. CASE mem[c].user.legacy
    BY <2>2, <2>3, <2>4, NewAccount DEF LoggedIn
  <2>5. CASE ~mem[c].user.legacy
    BY <2>2, <2>3, <2>5 DEF LoggedIn
  <2> QED
    BY <2>3, <2>4, <2>5
<1>12. account' \in Account /\ account' # None
  BY <1>3, <1>4, <1>9, <1>10, <1>11, AccountFields
<1>13. TypeOK'
  <2>1. set' \in Passwords \cup {None} /\ restored' \in BOOLEAN
    BY <1>1, <1>3, <1>9, <1>10, <1>11 DEF TypeOK
  <2> QED
    BY <1>1, <1>2, <1>5, <1>6, <1>12, <2>1 DEF TypeOK
<1>14. Ordered'
  <2>1. \A d \in Calls : (pc[d] = "done" => pc'[d] = "done") /\ (pc[d] = "idle" <=> pc'[d] = "idle")
    BY <1>2, <1>5
  <2> QED
    BY <1>1, <1>2, <1>5, <1>7, <2>1, ZenonT(30) DEF Ordered
<1>15. HasLookedUp'
  BY <1>1, <1>2, <1>5, <1>12 DEF HasLookedUp
<1>16. TokensIssued'
  <2>1. \A t \in Calls : tokens[t] # "none" => tokens'[t] # "none"
    BY <1>2, <1>7
  <2>2. \A d \in Calls : pc'[d] # "idle" /\ job[d].op = "confirm" => job[d].token \in Calls
    BY <1>1, <1>2, <1>5, Jobs
  <2>3. \A d \in Calls : mem[d].rows \subseteq Calls
    BY <1>1 DEF TypeOK
  <2> QED
    BY <1>1, <1>2, <1>5, <2>1, <2>2, <2>3 DEF TokensIssued
<1>17. RegisteredOnce'
  <2>1. \A d \in Calls : d # c /\ result'[d] = "ok" =>
            result[d] = "ok" /\ (job[d].op = "request" \/ account # None)
    BY <1>1, <1>5 DEF HasLookedUp
  <2> QED
    BY <1>1, <1>2, <1>5, <1>8, <2>1 DEF RegisteredOnce
<1>18. /\ Live' \subseteq Live \cup {c}
       /\ \A t \in Live' : t = c \/ t \notin mem[c].rows
  BY <1>2, <1>6 DEF Live
<1>19. \A d \in Calls : d # c => (Superseding(d)' <=> Superseding(d))
  BY <1>2, <1>5, <1>7 DEF Superseding
<1>20. Collected'
  BY <1>1, <1>2, <1>5, <1>8, <1>18 DEF Collected
<1>21. TokensSuperseded'
  <2>1. \A d \in Calls, t \in Live' : d # c /\ Superseding(d)' => <<t, d>> \notin before
    BY <1>1, <1>8, <1>18, <1>19 DEF TokensSuperseded
  <2>2. \A t \in Live' : Superseding(c)' => <<t, c>> \notin before
    <3>1. Superseding(c)' => job[c].op \in {"request", "confirm"}
      BY <1>2 DEF Superseding
    <3> QED
      BY <1>1, <1>2, <1>8, <1>18, <3>1 DEF Collected
  <2> QED
    BY <1>2, <2>1, <2>2 DEF TokensSuperseded
<1>22. ConfirmsLive'
  <2>1. \A d \in Calls : Confirming(d)' => Confirming(d)
    BY <1>2, <1>5 DEF Confirming
  <2> QED
    BY <1>1, <1>2, <1>8, <1>19, <2>1 DEF ConfirmsLive
<1>23. PasswordIsSet'
  <2>1. ~restored' => account'.password = set'
    BY <1>1, <1>3, <1>4, <1>9, <1>10, <1>11, AccountFields DEF PasswordIsSet
  <2>2. \A d \in Calls : FollowsAll(d)' => FollowsAll(d) /\ job[c].op \in {"login", "request"}
    BY <1>2, <1>3, <1>5, <1>8 DEF FollowsAll
  <2>3. (\E d \in Calls : FollowsAll(d)') /\ ~restored' => ~restored /\ set' = set
    BY <1>10, <1>11, <2>2
  <2> QED
    BY <1>1, <1>2, <1>5, <2>1, <2>2, <2>3 DEF PasswordIsSet
<1> QED
  BY <1>13, <1>14, <1>15, <1>16, <1>17, <1>20, <1>21, <1>22, <1>23 DEF IInv

-----------------------------------------------------------------------------
\* Every step keeps the invariant, ...
LEMMA Preserved == IInv /\ [Next]_vars => IInv'
<1> SUFFICES ASSUME IInv, [Next]_vars PROVE IInv'
  OBVIOUS
<1>1. CASE Next
  BY <1>1, SubmitKeeps, LookUpKeeps, CollectKeeps, WriteKeeps, AbortKeeps, ExpireKeeps DEF Next
<1>2. CASE UNCHANGED vars
  <2>1. UNCHANGED <<account, tokens, expired, job, pc, mem, result, before, set, restored>>
    BY <1>2 DEF vars, rows, work
  <2>2. TypeOK' /\ Ordered' /\ HasLookedUp' /\ TokensIssued' /\ RegisteredOnce'
    <3>1. TypeOK'
      BY <2>1 DEF IInv, TypeOK
    <3>2. Ordered'
      BY <2>1 DEF IInv, Ordered
    <3>3. HasLookedUp' /\ TokensIssued' /\ RegisteredOnce'
      BY <2>1 DEF IInv, HasLookedUp, TokensIssued, RegisteredOnce
    <3> QED
      BY <3>1, <3>2, <3>3
  <2>3. Live' = Live
    BY <2>1 DEF Live
  <2>4. \A d \in Calls : Superseding(d)' <=> Superseding(d)
    BY <2>1 DEF Superseding
  <2>5. Collected' /\ TokensSuperseded' /\ ConfirmsLive'
    BY <2>1, <2>3, <2>4 DEF IInv, Collected, TokensSuperseded, ConfirmsLive, Confirming
  <2>6. PasswordIsSet'
    BY <2>1 DEF IInv, PasswordIsSet, FollowsAll
  <2> QED
    BY <2>2, <2>5, <2>6 DEF IInv
<1> QED
  BY <1>1, <1>2

\* ... so that it always holds.
LEMMA Inductive == Spec => []IInv
BY Initially, Preserved, PTL DEF Spec

\* Type correctness, for any number of calls and passwords.
THEOREM AccountsTypeCorrect == Spec => []TypeOK
<1>1. IInv => TypeOK
  BY DEF IInv
<1> QED
  BY <1>1, Inductive, PTL

\* A registration never takes over an account.
THEOREM OneUserPerAddress == Spec => []OneRegistration
<1>1. IInv => OneRegistration
  BY DEF IInv, RegisteredOnce, OneRegistration, Succeeded
<1> QED
  BY <1>1, Inductive, PTL

\* A login that began after the last reset is answered by what it set.
THEOREM ResetTakesEffect == Spec => []LoginFollowsReset
<1>1. IInv => LoginFollowsReset
  BY DEF IInv, TypeOK, Ordered, PasswordIsSet, FollowsAll, LoginFollowsReset, Succeeded, Done
<1> QED
  BY <1>1, Inductive, PTL

\* A token that a later request or a reset has superseded is refused.
THEOREM OldTokensAreRefused == Spec => []SupersededIsRefused
<1>1. IInv => SupersededIsRefused
  BY DEF IInv, TypeOK, Ordered, ConfirmsLive, Confirming, Superseding, SupersededIsRefused,
         Succeeded, Issued
<1> QED
  BY <1>1, Inductive, PTL

-----------------------------------------------------------------------------
(* The rate limiter.  A bucket does not remember what it evicted: it is     *)
(* tied to the log of all admissions, of which it is the end.               *)

BucketIsEndOfLog ==
    \A key \in Keys :
        /\ Len(buckets[key]) <= Len(admitted[key])
        /\ \A i \in 1..Len(buckets[key]) :
              buckets[key][i] = admitted[key][Len(admitted[key]) - Len(buckets[key]) + i]

\* What a bucket lost was no longer within the window.
EvictedIsOld ==
    \A key \in Keys : \A i \in 1..Len(admitted[key]) - Len(buckets[key]) :
        admitted[key][i] <= now - Window

\* A delay lasts until the request that was the first in the bucket is old.
DelayOutlastsFirst ==
    \A key \in Keys : \A r \in refused[key] :
        admitted[key][r.after - Limit(key) + 1] + Window < r.until

LimiterInv ==
    /\ LimiterTypeOK
    /\ BucketIsEndOfLog
    /\ EvictedIsOld
    /\ WindowBounded
    /\ RefusedOnlyFull
    /\ DelayOutlastsFirst

-----------------------------------------------------------------------------
\* int(x) + 1 whole seconds are longer than x.
LEMMA DelayRoundsUp ==
    ASSUME NEW x \in Nat, NEW s \in Nat \ {0}
    PROVE  /\ x \div s + 1 \in Nat
           /\ x < (x \div s + 1) * s
<1>1. x \div s \in Int /\ x % s \in 0..s - 1
  BY SMT
<1>2. x = s * (x \div s) + (x % s)
  BY SMT
<1>3. x \div s \in Nat
  BY SMT
<1> QED
  BY <1>1, <1>2, <1>3, SMT

\* Every key admits something.
LEMMA LimitIsPositive ==
    ASSUME NEW key \in Keys
    PROVE  Limit(key) \in Nat \ {0}
  BY RateLimiterConstants DEF Limit

\* The window is not empty.
LEMMA WindowIsPositive == Window \in Nat \ {0}
  BY RateLimiterConstants, SMT DEF Window

\* The limiter starts without buckets.
LEMMA LimiterInitially == LimiterInit => LimiterInv
<1> SUFFICES ASSUME LimiterInit PROVE LimiterInv
  OBVIOUS
<1>1. \A key \in Keys : Limit(key) \in Nat \ {0}
  BY LimitIsPositive
<1> QED
  BY <1>1, WindowIsPositive DEF LimiterInit, LimiterInv, LimiterTypeOK, BucketIsEndOfLog,
     EvictedIsOld, WindowBounded,
     RefusedOnlyFull, DelayOutlastsFirst

\* The clock advances: what was old stays old.
LEMMA TickPreserves == LimiterInv /\ Tick => LimiterInv'
<1> SUFFICES ASSUME LimiterInv, Tick PROVE LimiterInv'
  OBVIOUS
<1>1. now' \in Nat /\ now' = now + 1
  BY DEF LimiterInv, LimiterTypeOK, Tick
<1>2. LimiterTypeOK'
  BY <1>1 DEF LimiterInv, LimiterTypeOK, Tick
<1>3. BucketIsEndOfLog'
  BY DEF LimiterInv, BucketIsEndOfLog, Tick
<1>4. EvictedIsOld'
  <2> SUFFICES ASSUME NEW key \in Keys,
                      NEW i \in 1..Len(admitted[key]) - Len(buckets[key])
               PROVE  admitted[key][i] <= now' - Window
    BY DEF EvictedIsOld, Tick
  <2>1. admitted[key] \in Seq(Nat) /\ buckets[key] \in Seq(Nat)
    BY DEF LimiterInv, LimiterTypeOK
  <2>2. i \in 1..Len(admitted[key])
    BY <2>1
  <2> QED
    BY <1>1, <2>1, <2>2, WindowIsPositive DEF LimiterInv, EvictedIsOld, LimiterTypeOK
<1>5. WindowBounded' /\ RefusedOnlyFull' /\ DelayOutlastsFirst'
  BY DEF LimiterInv, WindowBounded, RefusedOnlyFull, DelayOutlastsFirst, Tick
<1> QED
  BY <1>2, <1>3, <1>4, <1>5 DEF LimiterInv

-----------------------------------------------------------------------------
(* A request, in the terms of the bucket that the eviction leaves.          *)

\* What eviction leaves is the end of the bucket.
LEMMA BucketAfterEviction ==
    ASSUME NEW old \in Seq(Nat), NEW n \in 0..Len(old)
    PROVE  LET bucket == SubSeq(old, n + 1, Len(old))
           IN  /\ bucket \in Seq(Nat)
               /\ Len(bucket) = Len(old) - n
               /\ \A i \in 1..Len(bucket) : bucket[i] = old[n + i]
<1>1. Len(old) \in Nat /\ n + 1 \in Int /\ \A i \in n + 1..Len(old) : old[i] \in Nat
  OBVIOUS
<1> DEFINE bucket == SubSeq(old, n + 1, Len(old))
<1>2. /\ bucket \in Seq(Nat)
      /\ Len(bucket) = IF n + 1 <= Len(old) THEN Len(old) - (n + 1) + 1 ELSE 0
      /\ \A i \in 1..Len(old) - (n + 1) + 1 : bucket[i] = old[n + 1 + i - 1]
  BY <1>1, SubSeqProperties
<1> HIDE DEF bucket
<1>3. Len(bucket) = Len(old) - n
  BY <1>1, <1>2
<1>4. \A i \in 1..Len(bucket) : bucket[i] = old[n + i]
  <2> TAKE i \in 1..Len(bucket)
  <2>1. i \in 1..Len(old) - (n + 1) + 1 /\ n + 1 + i - 1 = n + i
    BY <1>1, <1>3
  <2> QED
    BY <1>2, <2>1
<1>5. QED
  BY <1>2, <1>3, <1>4 DEF bucket

\* What the eviction leaves is still the end of the log, and what the log has
\* before it is old.
LEMMA EvictionKeepsEnd ==
    ASSUME NEW old \in Seq(Nat), NEW log \in Seq(Nat), NEW bucket \in Seq(Nat), now \in Nat,
           Len(old) <= Len(log),
           \A i \in 1..Len(old) : old[i] = log[Len(log) - Len(old) + i],
           \A i \in 1..Len(log) - Len(old) : log[i] <= now - Window,
           NEW n \in 0..Len(old), Evicted(old, n),
           Len(bucket) = Len(old) - n,
           \A i \in 1..Len(bucket) : bucket[i] = old[n + i]
    PROVE  /\ Len(bucket) <= Len(log)
           /\ \A i \in 1..Len(bucket) : bucket[i] = log[Len(log) - Len(bucket) + i]
           /\ \A i \in 1..Len(log) - Len(bucket) : log[i] <= now - Window
           /\ Len(bucket) > 0 => bucket[1] > now - Window
<1>1. Len(old) \in Nat /\ Len(log) \in Nat /\ Len(bucket) \in Nat /\ n \in Nat
  OBVIOUS
<1>2. Len(bucket) <= Len(log)
  BY <1>1
<1>3. \A i \in 1..Len(bucket) : bucket[i] = log[Len(log) - Len(bucket) + i]
  <2> TAKE i \in 1..Len(bucket)
  <2>1. n + i \in 1..Len(old) /\ Len(log) - Len(old) + (n + i) = Len(log) - Len(bucket) + i
    BY <1>1
  <2>2. old[n + i] = log[Len(log) - Len(old) + (n + i)]
    BY <2>1
  <2> QED
    BY <2>1, <2>2
<1>4. \A i \in 1..Len(log) - Len(bucket) : log[i] <= now - Window
  <2> TAKE i \in 1..Len(log) - Len(bucket)
  <2>1. CASE i <= Len(log) - Len(old)
    BY <1>1, <2>1
  <2>2. CASE ~(i <= Len(log) - Len(old))
    <3>1. PICK j \in 1..n : Len(log) - Len(old) + j = i
      <4>1. i - (Len(log) - Len(old)) \in 1..n
        BY <1>1, <2>2
      <4>2. Len(log) - Len(old) + (i - (Len(log) - Len(old))) = i
        BY <1>1
      <4> WITNESS i - (Len(log) - Len(old)) \in 1..n
      <4> QED
        BY <4>2
    <3>2. j \in 1..Len(old)
      BY <1>1
    <3>3. old[j] \in Nat /\ old[j] = log[i]
      <4>1. old[j] = log[Len(log) - Len(old) + j]
        BY <3>2
      <4>2. old[j] = log[i]
        BY <3>1, <4>1, Zenon
      <4>3. old[j] \in Nat
        BY <3>2, SMTT(30)
      <4> QED
        BY <4>2, <4>3
    <3>4. ~(old[j] > now - Window)
      BY DEF Evicted, Counts
    <3> QED
      BY <3>3, <3>4, WindowIsPositive, SMTT(30)
  <2> QED
    BY <2>1, <2>2
<1>5. Len(bucket) > 0 => bucket[1] > now - Window
  <2> SUFFICES ASSUME Len(bucket) > 0 PROVE bucket[1] > now - Window
    OBVIOUS
  <2>1. n < Len(old) /\ 1 \in 1..Len(bucket)
    <3>1. n < Len(old)
      BY <1>1, SMTT(30)
    <3>2. 1 \in 1..Len(bucket)
      BY <1>1, SMTT(30)
    <3> QED BY <3>1, <3>2
  <2>2. bucket[1] = old[n + 1]
    BY <2>1
  <2>3. old[n + 1] > now - Window
    BY <2>1 DEF Evicted, Counts
  <2> QED
    BY <2>2, <2>3
<1> QED
  BY <1>2, <1>3, <1>4, <1>5

(* The same of one bucket and one log, for the step that appends to both.   *)

IsEnd(bucket, log) ==
    /\ Len(bucket) <= Len(log)
    /\ \A i \in 1..Len(bucket) : bucket[i] = log[Len(log) - Len(bucket) + i]

IsOldBefore(bucket, log) ==
    \A i \in 1..Len(log) - Len(bucket) : log[i] <= now - Window

IsSpaced(log, limit) ==
    \A i \in 1..Len(log) : i + limit <= Len(log) => log[i + limit] - log[i] >= Window

\* An admitted request joins the bucket and the log: the bucket is the end of
\* the log as before, and the log stays spaced, since what lies a limit before
\* the new request was not in the bucket.
LEMMA AdmissionKeepsEnd ==
    ASSUME NEW log \in Seq(Nat), NEW bucket \in Seq(Nat), NEW limit \in Nat \ {0}, now \in Nat,
           Len(bucket) < limit,
           IsEnd(bucket, log), IsOldBefore(bucket, log), IsSpaced(log, limit)
    PROVE  /\ Append(bucket, now) \in Seq(Nat)
           /\ Append(log, now) \in Seq(Nat)
           /\ Len(Append(log, now)) = Len(log) + 1
           /\ \A i \in 1..Len(log) : Append(log, now)[i] = log[i]
           /\ Len(Append(bucket, now)) <= limit
           /\ IsEnd(Append(bucket, now), Append(log, now))
           /\ IsOldBefore(Append(bucket, now), Append(log, now))
           /\ IsSpaced(Append(log, now), limit)
<1> DEFINE fuller == Append(bucket, now)
           longer == Append(log, now)
<1>1. PICK m, b : m = Len(log) /\ b = Len(bucket)
  OBVIOUS
<1>2. m \in Nat /\ b \in Nat /\ b <= m /\ b < limit /\ Window \in Nat \ {0}
  BY <1>1, WindowIsPositive DEF IsEnd
<1>3. /\ fuller \in Seq(Nat) /\ Len(fuller) = b + 1
      /\ \A i \in 1..b : fuller[i] = bucket[i]
      /\ fuller[b + 1] = now
  BY <1>1, AppendProperties
<1>4. /\ longer \in Seq(Nat) /\ Len(longer) = m + 1
      /\ \A i \in 1..m : longer[i] = log[i]
      /\ longer[m + 1] = now
  BY <1>1, AppendProperties
<1> HIDE DEF fuller, longer
<1>5. \A i \in 1..b + 1 : fuller[i] = longer[m - b + i]
  <2> TAKE i \in 1..b + 1
  <2>1. CASE i \in 1..b
    <3>1. m - b + i \in 1..m
      BY <1>2, <2>1
    <3>2. longer[m - b + i] = log[m - b + i]
      BY <1>4, <3>1
    <3>3. bucket[i] = log[m - b + i]
      BY <1>1, <2>1 DEF IsEnd
    <3> QED
      BY <1>3, <2>1, <3>2, <3>3
  <2>2. CASE i = b + 1
    <3>1. m - b + i = m + 1
      BY <1>2, <2>2
    <3> QED
      BY <1>3, <1>4, <2>2, <3>1
  <2>3. i \in 1..b \/ i = b + 1
    BY <1>2
  <2> QED
    BY <2>1, <2>2, <2>3, Zenon
<1>6. \A i \in 1..m - b : longer[i] = log[i] /\ log[i] \in Nat /\ longer[i] <= now - Window
  <2> TAKE i \in 1..m - b
  <2>1. i \in 1..m
    BY <1>2
  <2>2. log[i] <= now - Window
    BY <1>1 DEF IsOldBefore
  <2>3. longer[i] = log[i]
    BY <1>4, <2>1
  <2> QED
    BY <1>1, <2>1, <2>2, <2>3
<1>7. \A i \in 1..m + 1 : i + limit <= m + 1 => longer[i + limit] - longer[i] >= Window
  <2> SUFFICES ASSUME NEW i \in 1..m + 1, i + limit <= m + 1
               PROVE  longer[i + limit] - longer[i] >= Window
    OBVIOUS
  <2>1. CASE i + limit <= m
    <3>1. i \in 1..m /\ i + limit \in 1..m
      BY <1>2, <2>1
    <3>2. log[i + limit] - log[i] >= Window
      BY <1>1, <2>1, <3>1 DEF IsSpaced
    <3>3. longer[i + limit] = log[i + limit] /\ longer[i] = log[i]
      BY <1>4, <3>1
    <3> QED
      BY <3>2, <3>3
  <2>2. CASE i + limit = m + 1
    <3>1. i \in 1..m - b
      BY <1>2, <2>2
    <3>2. longer[i] \in Nat /\ longer[i] <= now - Window
      BY <1>6, <3>1
    <3>3. longer[i + limit] = now
      BY <1>4, <2>2
    <3>4. now - longer[i] >= Window
      <4> DEFINE first == longer[i]
      <4>1. first \in Nat /\ first <= now - Window
        BY <3>2
      <4> HIDE DEF first
      <4>2. now - first >= Window
        BY <1>2, <4>1
      <4> QED
        BY <4>2 DEF first
    <3> QED
      BY <3>3, <3>4
  <2>3. i + limit <= m \/ i + limit = m + 1
    BY <1>2
  <2> QED
    BY <2>1, <2>2, <2>3, Zenon
<1>8. Len(longer) - Len(fuller) = m - b /\ b + 1 <= m + 1 /\ b + 1 <= limit
  BY <1>2, <1>3, <1>4
<1>9. \A i \in 1..Len(longer) - Len(fuller) : longer[i] <= now - Window
  BY <1>6, <1>8
<1>10. \A i \in 1..Len(fuller) : fuller[i] = longer[Len(longer) - Len(fuller) + i]
  BY <1>3, <1>5, <1>8
<1>11. IsEnd(fuller, longer) /\ IsOldBefore(fuller, longer) /\ IsSpaced(longer, limit)
  BY <1>3, <1>4, <1>7, <1>8, <1>9, <1>10 DEF IsEnd, IsOldBefore, IsSpaced
<1> QED
  BY <1>1, <1>3, <1>4, <1>8, <1>11 DEF fuller, longer

\* A request is admitted or refused.
LEMMA CheckPreserves ==
    ASSUME LimiterInv, NEW key \in Keys, Check(key)
    PROVE  LimiterInv'
<1>1. PICK n \in 0..Len(buckets[key]) :
        LET bucket == SubSeq(buckets[key], n + 1, Len(buckets[key]))
        IN  /\ Evicted(buckets[key], n)
            /\ IF Full(key, bucket)
               THEN /\ buckets' = [buckets EXCEPT ![key] = bucket]
                    /\ refused' = [refused EXCEPT ![key] = @ \cup
                            {[at |-> now, until |-> now + RetryAfter(bucket) * Second,
                              after |-> Len(admitted[key])]}]
                    /\ UNCHANGED admitted
               ELSE /\ buckets' = [buckets EXCEPT ![key] = Append(bucket, now)]
                    /\ admitted' = [admitted EXCEPT ![key] = Append(@, now)]
                    /\ UNCHANGED refused
            /\ UNCHANGED now
  BY DEF Check
<1> DEFINE old == buckets[key]
           log == admitted[key]
           bucket == SubSeq(old, n + 1, Len(old))
           refusal == [at |-> now, until |-> now + RetryAfter(bucket) * Second,
                       after |-> Len(log)]
<1>2. /\ old \in Seq(Nat) /\ log \in Seq(Nat) /\ now \in Nat /\ now' = now
      /\ Len(old) <= Limit(key) /\ Limit(key) \in Nat \ {0} /\ Window \in Nat \ {0}
      /\ Len(old) <= Len(log)
      /\ \A i \in 1..Len(old) : old[i] = log[Len(log) - Len(old) + i]
      /\ \A i \in 1..Len(log) - Len(old) : log[i] <= now - Window
  BY <1>1, LimitIsPositive, WindowIsPositive DEF LimiterInv, LimiterTypeOK, BucketIsEndOfLog, EvictedIsOld
<1>3. /\ bucket \in Seq(Nat)
      /\ Len(bucket) = Len(old) - n
      /\ \A i \in 1..Len(bucket) : bucket[i] = old[n + i]
  BY <1>2, BucketAfterEviction
<1>4. Evicted(old, n)
  BY <1>1
<1> HIDE DEF bucket, old, log
<1>5. /\ Len(bucket) <= Len(log)
      /\ \A i \in 1..Len(bucket) : bucket[i] = log[Len(log) - Len(bucket) + i]
      /\ \A i \in 1..Len(log) - Len(bucket) : log[i] <= now - Window
      /\ Len(bucket) > 0 => bucket[1] > now - Window
  BY <1>2, <1>3, <1>4, EvictionKeepsEnd DEF old
<1>6. Len(bucket) <= Limit(key)
  BY <1>2, <1>3 DEF old
<1>7. CASE Full(key, bucket)
  <2>1. /\ buckets' = [buckets EXCEPT ![key] = bucket]
        /\ refused' = [refused EXCEPT ![key] = @ \cup {refusal}]
        /\ admitted' = admitted
    BY <1>1, <1>7 DEF bucket, old, log
  <2>2. Len(bucket) = Limit(key)
    BY <1>2, <1>3, <1>6, <1>7 DEF Full
  <2>3. /\ Limit(key) <= Len(log) /\ bucket[1] \in Nat
        /\ bucket[1] = log[Len(log) - Limit(key) + 1]
        /\ bucket[1] > now - Window
    BY <1>2, <1>3, <1>5, <2>2, SMTT(30)
  <2>4. RetryAfter(bucket) \in Nat /\ bucket[1] + Window - now < RetryAfter(bucket) * Second
    <3> DEFINE rest == bucket[1] + Window - now
    <3>1. rest \in Nat /\ Second \in Nat \ {0}
      <4>1. now \in Nat /\ Window \in Nat
        BY <1>2
      <4>2. rest \in Nat
        BY <2>3, <4>1
      <4>3. Second \in Nat \ {0}
        BY RateLimiterConstants
      <4> QED
        BY <4>2, <4>3
    <3> HIDE DEF rest
    <3>2. rest \div Second + 1 \in Nat /\ rest < (rest \div Second + 1) * Second
      BY <3>1, DelayRoundsUp
    <3> QED
      BY <3>2, Zenon DEF RetryAfter, rest
  <2> DEFINE until == now + RetryAfter(bucket) * Second
  <2>5. until \in Nat /\ log[Len(log) - Limit(key) + 1] + Window < until
    <3>1. RetryAfter(bucket) * Second \in Nat
      BY <2>4, RateLimiterConstants
    <3> DEFINE delay == RetryAfter(bucket) * Second
    <3> HIDE DEF delay
    <3>2. delay \in Nat /\ bucket[1] + Window - now < delay
      BY <2>4, <3>1 DEF delay
    <3>3. now + delay \in Nat /\ bucket[1] + Window < now + delay
      BY <1>2, <2>3, <3>2
    <3> QED
      BY <2>3, <3>3 DEF delay
  <2> HIDE DEF until
  <2>6. /\ refusal = [at |-> now, until |-> until, after |-> Len(log)]
        /\ refusal \in Refusal
    BY <1>2, <2>5 DEF Refusal, until
  <2> HIDE DEF refusal
  <2>7. /\ \A k \in Keys : buckets'[k] = IF k = key THEN bucket ELSE buckets[k]
        /\ \A k \in Keys : refused'[k] = IF k = key THEN refused[k] \cup {refusal} ELSE refused[k]
    BY <2>1 DEF LimiterInv, LimiterTypeOK
  <2>8. LimiterTypeOK'
    <3>1. buckets' \in [Keys -> Seq(Nat)]
      BY <1>3, <2>1 DEF LimiterInv, LimiterTypeOK
    <3>2. refused' \in [Keys -> SUBSET Refusal]
      BY <2>1, <2>6 DEF LimiterInv, LimiterTypeOK
    <3>3. \A k \in Keys : Len(buckets'[k]) <= Limit(k)
      BY <1>6, <2>7 DEF LimiterInv, LimiterTypeOK
    <3> QED
      BY <1>2, <2>1, <3>1, <3>2, <3>3 DEF LimiterInv, LimiterTypeOK, Limit
  <2>9. BucketIsEndOfLog' /\ EvictedIsOld'
    <3> SUFFICES ASSUME NEW k \in Keys
                 PROVE  /\ Len(buckets'[k]) <= Len(admitted[k])
                        /\ \A i \in 1..Len(buckets'[k]) :
                              buckets'[k][i] = admitted[k][Len(admitted[k]) - Len(buckets'[k]) + i]
                        /\ \A i \in 1..Len(admitted[k]) - Len(buckets'[k]) :
                              admitted[k][i] <= now - Window
      <4>1. Window' = Window /\ now' = now /\ admitted' = admitted
        BY <1>2, <2>1 DEF Window
      <4> QED
        BY <4>1 DEF BucketIsEndOfLog, EvictedIsOld
    <3>1. CASE k = key
      BY <1>5, <2>7, <3>1 DEF log
    <3>2. CASE k # key
      BY <2>7, <3>2 DEF LimiterInv, BucketIsEndOfLog, EvictedIsOld
    <3> QED
      BY <3>1, <3>2
  <2>10. WindowBounded'
    BY <2>1 DEF LimiterInv, WindowBounded, Limit
  <2>11. RefusedOnlyFull' /\ DelayOutlastsFirst'
    <3> SUFFICES ASSUME NEW k \in Keys, NEW r \in refused'[k]
                 PROVE  /\ Limit(k) <= r.after /\ r.after <= Len(admitted[k])
                        /\ admitted[k][r.after - Limit(k) + 1] > r.at - Window
                        /\ admitted[k][r.after - Limit(k) + 1] + Window < r.until
      BY <2>1 DEF RefusedOnlyFull, DelayOutlastsFirst, Limit
    <3>1. CASE r \in refused[k]
      BY <3>1 DEF LimiterInv, RefusedOnlyFull, DelayOutlastsFirst
    <3>2. CASE k = key /\ r = refusal
      BY <1>2, <2>3, <2>5, <2>6, <3>2 DEF log
    <3> QED
      BY <2>7, <3>1, <3>2
  <2> QED
    BY <2>8, <2>9, <2>10, <2>11 DEF LimiterInv
<1>8. CASE ~Full(key, bucket)
  <2>1. /\ buckets' = [buckets EXCEPT ![key] = Append(bucket, now)]
        /\ admitted' = [admitted EXCEPT ![key] = Append(log, now)]
        /\ refused' = refused
    BY <1>1, <1>8 DEF bucket, old, log
  <2> DEFINE fuller == Append(bucket, now)
             longer == Append(log, now)
  <2>2. /\ \A k \in Keys : buckets'[k] = IF k = key THEN fuller ELSE buckets[k]
        /\ \A k \in Keys : admitted'[k] = IF k = key THEN longer ELSE admitted[k]
    BY <2>1 DEF LimiterInv, LimiterTypeOK
  <2>3. Len(bucket) < Limit(key)
    BY <1>2, <1>3, <1>8 DEF Full
  <2>4. \A i \in 1..Len(log) :
            i + Limit(key) <= Len(log) => log[i + Limit(key)] - log[i] >= Window
    BY DEF LimiterInv, WindowBounded, log
  <2> HIDE DEF fuller, longer
  <2>5. /\ fuller \in Seq(Nat) /\ longer \in Seq(Nat)
        /\ Len(longer) = Len(log) + 1
        /\ \A i \in 1..Len(log) : longer[i] = log[i]
        /\ Len(fuller) <= Limit(key)
        /\ Len(fuller) <= Len(longer)
        /\ \A i \in 1..Len(fuller) : fuller[i] = longer[Len(longer) - Len(fuller) + i]
        /\ \A i \in 1..Len(longer) - Len(fuller) : longer[i] <= now - Window
        /\ \A i \in 1..Len(longer) :
              i + Limit(key) <= Len(longer) => longer[i + Limit(key)] - longer[i] >= Window
    <3>1. fuller = Append(bucket, now) /\ longer = Append(log, now)
      BY DEF fuller, longer
    <3>2. log \in Seq(Nat) /\ bucket \in Seq(Nat) /\ Limit(key) \in Nat \ {0} /\ now \in Nat
      BY <1>2, <1>3
    <3>3. IsEnd(bucket, log) /\ IsOldBefore(bucket, log) /\ IsSpaced(log, Limit(key))
      BY <1>5, <2>4 DEF IsEnd, IsOldBefore, IsSpaced
    <3> HIDE DEF Limit
    <3>4. /\ fuller \in Seq(Nat) /\ longer \in Seq(Nat)
          /\ Len(longer) = Len(log) + 1
          /\ \A i \in 1..Len(log) : longer[i] = log[i]
          /\ Len(fuller) <= Limit(key)
          /\ IsEnd(fuller, longer) /\ IsOldBefore(fuller, longer) /\ IsSpaced(longer, Limit(key))
      BY <2>3, <3>1, <3>2, <3>3, AdmissionKeepsEnd
    <3> QED
      BY <3>4 DEF IsEnd, IsOldBefore, IsSpaced
  <2>6. LimiterTypeOK'
    <3>1. buckets' \in [Keys -> Seq(Nat)] /\ admitted' \in [Keys -> Seq(Nat)]
      BY <2>1, <2>5 DEF LimiterInv, LimiterTypeOK, fuller, longer
    <3>2. \A k \in Keys : Len(buckets'[k]) <= Limit(k)
      BY <2>2, <2>5 DEF LimiterInv, LimiterTypeOK
    <3> QED
      BY <1>2, <2>1, <3>1, <3>2 DEF LimiterInv, LimiterTypeOK, Limit
  <2>7. BucketIsEndOfLog'
    <3> SUFFICES ASSUME NEW k \in Keys
                 PROVE  /\ Len(buckets'[k]) <= Len(admitted'[k])
                        /\ \A i \in 1..Len(buckets'[k]) :
                              buckets'[k][i] = admitted'[k][Len(admitted'[k]) - Len(buckets'[k]) + i]
      BY DEF BucketIsEndOfLog
    <3>1. CASE k = key
      BY <2>2, <2>5, <3>1
    <3>2. CASE k # key
      BY <2>2, <3>2 DEF LimiterInv, BucketIsEndOfLog
    <3> QED
      BY <3>1, <3>2
  <2>8. EvictedIsOld'
    <3> SUFFICES ASSUME NEW k \in Keys,
                        NEW i \in 1..Len(admitted'[k]) - Len(buckets'[k])
                 PROVE  admitted'[k][i] <= now - Window
      BY <1>2 DEF EvictedIsOld, Window
    <3>1. CASE k = key
      BY <2>2, <2>5, <3>1
    <3>2. CASE k # key
      BY <2>2, <3>2 DEF LimiterInv, EvictedIsOld
    <3> QED
      BY <3>1, <3>2
  <2>10. WindowBounded'
    <3> SUFFICES ASSUME NEW k \in Keys, NEW i \in 1..Len(admitted'[k]),
                        i + Limit(k) <= Len(admitted'[k])
                 PROVE  admitted'[k][i + Limit(k)] - admitted'[k][i] >= Window
      BY DEF WindowBounded, Limit, Window
    <3>1. CASE k = key
      BY <2>2, <2>5, <3>1
    <3>2. CASE k # key
      BY <2>2, <3>2 DEF LimiterInv, WindowBounded
    <3> QED
      BY <3>1, <3>2
  <2>11. RefusedOnlyFull' /\ DelayOutlastsFirst'
    <3> SUFFICES ASSUME NEW k \in Keys, NEW r \in refused[k]
                 PROVE  /\ Limit(k) <= r.after /\ r.after <= Len(admitted'[k])
                        /\ admitted'[k][r.after - Limit(k) + 1] > r.at - Window
                        /\ admitted'[k][r.after - Limit(k) + 1] + Window < r.until
      BY <2>1 DEF RefusedOnlyFull, DelayOutlastsFirst, Limit
    <3>1. /\ Limit(k) <= r.after /\ r.after <= Len(admitted[k])
          /\ admitted[k][r.after - Limit(k) + 1] > r.at - Window
          /\ admitted[k][r.after - Limit(k) + 1] + Window < r.until
          /\ r.after \in Nat /\ Limit(k) \in Nat \ {0} /\ admitted[k] \in Seq(Nat)
      BY LimitIsPositive DEF LimiterInv, LimiterTypeOK, RefusedOnlyFull, DelayOutlastsFirst, Refusal
    <3>2. CASE k = key
      <4> DEFINE first == r.after - Limit(key) + 1
      <4>1. first \in 1..Len(log) /\ admitted[key] = log /\ admitted'[key] = longer
        BY <2>2, <3>1, <3>2 DEF log
      <4>2. longer[first] = log[first] /\ r.after <= Len(longer)
        <5>1. longer[first] = log[first]
          BY <2>5, <4>1
        <5>2. Len(longer) = Len(log) + 1 /\ Len(log) \in Nat /\ r.after <= Len(log)
          BY <2>5, <3>1, <3>2, <4>1
        <5> QED
          BY <3>1, <5>1, <5>2
      <4> QED
        BY <3>1, <3>2, <4>1, <4>2
    <3>3. CASE k # key
      BY <2>2, <3>1, <3>3
    <3> QED
      BY <3>2, <3>3
  <2> QED
    BY <2>6, <2>7, <2>8, <2>10, <2>11 DEF LimiterInv
<1> QED
  BY <1>7, <1>8

-----------------------------------------------------------------------------
\* The invariant holds throughout.
LEMMA LimiterInductive == LimiterSpec => []LimiterInv
<1>1. LimiterInit => LimiterInv
  BY LimiterInitially
<1>2. LimiterInv /\ [LimiterNext]_limiterVars => LimiterInv'
  <2> SUFFICES ASSUME LimiterInv, [LimiterNext]_limiterVars PROVE LimiterInv'
    OBVIOUS
  <2>1. CASE Tick
    BY <2>1, TickPreserves
  <2>2. ASSUME NEW key \in Keys, Check(key) PROVE LimiterInv'
    BY <2>2, CheckPreserves
  <2>3. CASE UNCHANGED limiterVars
    BY <2>3 DEF limiterVars, LimiterInv, LimiterTypeOK, BucketIsEndOfLog, EvictedIsOld,
       WindowBounded,
       RefusedOnlyFull, DelayOutlastsFirst, Limit
  <2> QED
    BY <2>1, <2>2, <2>3 DEF LimiterNext
<1> QED
  BY <1>1, <1>2, PTL DEF LimiterSpec

\* A bucket holds no more than the limit of its key.
THEOREM LimiterTypeCorrect == LimiterSpec => []LimiterTypeOK
<1>1. LimiterInv => LimiterTypeOK
  BY DEF LimiterInv
<1> QED
  BY <1>1, LimiterInductive, PTL

\* No window of time admits more than the limit: a bucket that has room has
\* lost only what is older than the window.
THEOREM WindowIsBounded == LimiterSpec => []WindowBounded
<1>1. LimiterInv => WindowBounded
  BY DEF LimiterInv
<1> QED
  BY <1>1, LimiterInductive, PTL

\* A refusal is justified by as many admissions within the window as the
\* limit allows.
THEOREM RefusalIsJustified == LimiterSpec => []RefusedOnlyFull
<1>1. LimiterInv => RefusedOnlyFull
  BY DEF LimiterInv
<1> QED
  BY <1>1, LimiterInductive, PTL

\* The advertised delay is long enough: two refusals with no admission between
\* them wait for the same request to grow old, and the delay outlasts it.
THEOREM AdvertisedDelaySuffices == LimiterSpec => []RetryIsEnough
<1>1. LimiterInv => RetryIsEnough
  <2> SUFFICES ASSUME LimiterInv, NEW key \in Keys, NEW r \in refused[key], NEW s \in refused[key],
                      r.after = s.after
               PROVE  s.at < r.until
    BY DEF RetryIsEnough
  <2> DEFINE first == admitted[key][r.after - Limit(key) + 1]
  <2>1. /\ first > s.at - Window /\ first + Window < r.until
        /\ s.at \in Nat /\ r.until \in Nat
    BY DEF LimiterInv, LimiterTypeOK, RefusedOnlyFull, DelayOutlastsFirst, Refusal
  <2>2. first \in Nat
    <3>1. /\ admitted[key] \in Seq(Nat) /\ r.after \in Nat /\ Limit(key) \in Nat \ {0}
          /\ Limit(key) <= r.after /\ r.after <= Len(admitted[key])
      BY LimitIsPositive DEF LimiterInv, LimiterTypeOK, RefusedOnlyFull, Refusal
    <3>2. r.after - Limit(key) + 1 \in 1..Len(admitted[key])
      BY <3>1
    <3> QED
      BY <3>1, <3>2
  <2> HIDE DEF first
  <2> QED
    BY <2>1, <2>2, WindowIsPositive
<1> QED
  BY <1>1, LimiterInductive, PTL
====
