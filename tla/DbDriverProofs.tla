--------------------------- MODULE DbDriverProofs ---------------------------
(***************************************************************************)
(* The requests and replies of a program and its database drivers stay in  *)
(* step, for any number of drivers, tables, rows, calls and faults.        *)
(***************************************************************************)
EXTENDS DbDriver, SequenceTheorems, TLAPS

(***************************************************************************)
(* The pipes of a driver, and where it is, during a start, until the       *)
(* number of a procedure has come back, and until its result has come.     *)
(***************************************************************************)
IsResult(m) == m.part = "result"

Starting(is, q, p) ==
    /\ q = <<>>
    /\ \/ is \in {"init", "killed"} /\ p = <<>>
       \/ is \in {"listens", "killed"} /\ p = <<Result(TRUE, 0)>>
       \/ is = "ended" /\ p = <<Result(FALSE, 0)>>

Asking(call, is, q, p) ==
    \/ is = "listens" /\ q = <<Procnum(call)>> /\ p = <<>>
    \/ is = "args" /\ HasArgs(call) /\ q = <<>> /\ p = <<ProcedureOk>>
    \/ is \in {"serves", "saves"} /\ ~HasArgs(call) /\ q = <<>> /\ p = <<ProcedureOk>>
    \/ /\ is \in {"listens", "killed"} /\ ~HasArgs(call) /\ q = <<>>
       /\ \E m : IsResult(m) /\ p = <<ProcedureOk, m>>
    \/ is = "killed" /\ q = <<>> /\ p \in {<<>>, <<ProcedureOk>>}

Awaiting(call, is, q, p) ==
    \/ is = "args" /\ HasArgs(call) /\ q = <<Args(call)>> /\ p = <<>>
    \/ is \in {"serves", "saves"} /\ ~HasArgs(call) /\ q = <<>> /\ p = <<>>
    \/ is \in {"listens", "killed"} /\ q = <<>> /\ \E m : IsResult(m) /\ p = <<m>>
    \/ is \in {"killed", "ended"} /\ q = <<>> /\ p = <<>>
    \/ is = "ended" /\ q = <<>> /\ \E t : p = <<Result(FALSE, t)>>

Quiet(d) ==
    /\ rep[d] = <<>> /\ req[d] = <<>>
    /\ drv[d] = "listens" \/ drv[d] = "killed" \/ (drv[d] = "ended" /\ d \in failed)

Exchanging == {"start", "procnum", "result"}
PipesAgree(d) ==
    /\ client.at = "start" /\ client.d = d => Starting(drv[d], req[d], rep[d])
    /\ client.at = "procnum" /\ client.d = d => Asking(client.call, drv[d], req[d], rep[d])
    /\ client.at = "result" /\ client.d = d => Awaiting(client.call, drv[d], req[d], rep[d])
    /\ client.at \notin Exchanging \/ client.d # d => Quiet(d)

(* g is f but for driver e. *)
OnlyAt(e, f, g) == DOMAIN g = Drivers /\ \A d \in Drivers : d # e => g[d] = f[d]

SyncInv ==
    /\ DOMAIN handle = Drivers /\ DOMAIN drv = Drivers
    /\ DOMAIN req = Drivers /\ DOMAIN rep = Drivers
    /\ client.at \in Exchanging => client.d \in Drivers /\ handle[client.d] = "open"
    /\ ~Live => \A d \in Drivers : ~Held(d)
    /\ \A d \in Drivers :
          /\ handle[d] = "none" <=> drv[d] = "none"
          /\ drv[d] = "none" => req[d] = <<>> /\ rep[d] = <<>>
          /\ handle[d] = "open" => PipesAgree(d)

-----------------------------------------------------------------------------
(* Short sequences. *)
LEMMA Ones ==
  ASSUME NEW m PROVE /\ <<m>> # <<>> /\ Append(<<>>, m) = <<m>>
                     /\ Head(<<m>>) = m /\ Tail(<<m>>) = <<>>
OBVIOUS

LEMMA Twos ==
  ASSUME NEW m, NEW n PROVE /\ <<m, n>> # <<>> /\ Append(<<m>>, n) = <<m, n>>
                            /\ Head(<<m, n>>) = m /\ Tail(<<m, n>>) = <<n>>
<1> DEFINE S == {m, n}
<1>1. <<m>> \in Seq(S) /\ <<m, n>> \in Seq(S) /\ <<n>> \in Seq(S) /\ n \in S
  OBVIOUS
<1>2. Append(<<m>>, n) = <<m, n>>
  <2>1. Len(<<m>>) = 1 /\ Append(<<m>>, n) \in Seq(S) /\ Len(Append(<<m>>, n)) = 2
    BY <1>1
  <2>2. Append(<<m>>, n)[1] = m /\ Append(<<m>>, n)[2] = n
    BY <1>1, <2>1
  <2> QED
    <3>1. Len(<<m, n>>) = 2 /\ \A i \in 1 .. 2 : Append(<<m>>, n)[i] = <<m, n>>[i]
      BY <2>2
    <3> QED
      BY <1>1, <2>1, <3>1, SeqEqual
<1>3. Tail(<<m, n>>) = <<n>>
  <2>1. Len(<<m, n>>) = 2 /\ Tail(<<m, n>>) \in Seq(S) /\ Len(Tail(<<m, n>>)) = 1
    BY <1>1
  <2>2. Tail(<<m, n>>)[1] = n
    BY <1>1, <2>1
  <2> QED
    BY <1>1, <2>1, <2>2
<1> QED
  BY <1>2, <1>3

(* Messages are told apart. *)
LEMMA Messages ==
  /\ ProcedureOk.part = "procnum"
  /\ \A call : Procnum(call).part = "procnum" /\ Procnum(call).call = call
  /\ \A call : Args(call).part = "args" /\ Args(call).call = call
  /\ \A ok, t : IsResult(Result(ok, t)) /\ Result(ok, t).ok = ok
  /\ Result(TRUE, 0) # Result(FALSE, 0)
  /\ \A m : IsResult(m) => m # ProcedureOk
<1>1. /\ ProcedureOk.part = "procnum"
      /\ \A call : Procnum(call).part = "procnum" /\ Procnum(call).call = call
      /\ \A call : Args(call).part = "args" /\ Args(call).call = call
      /\ \A ok, t : Result(ok, t).part = "result" /\ Result(ok, t).ok = ok
  BY DEF ProcedureOk, Procnum, Args, Result
<1>2. Result(TRUE, 0).ok = TRUE /\ Result(FALSE, 0).ok = FALSE
  BY DEF Result
<1>3. Result(TRUE, 0) # Result(FALSE, 0)
  BY <1>2, Zenon
<1> QED
  BY <1>1, <1>3 DEF IsResult

-----------------------------------------------------------------------------
(* The steps.  A step of driver e keeps the pipes of all others as they are.*)
LEMMA DriverSteps ==
  ASSUME SyncInv, NEW e \in Drivers, Alive(e),
         UNCHANGED <<client, handle, failed>>,
         OnlyAt(e, drv, drv'), OnlyAt(e, req, req'), OnlyAt(e, rep, rep'),
         drv'[e] # "none",
         handle[e] = "open" => PipesAgree(e)'
  PROVE  SyncInv'
<1>1. /\ DOMAIN drv' = Drivers /\ DOMAIN req' = Drivers /\ DOMAIN rep' = Drivers
      /\ \A d \in Drivers : d # e => drv'[d] = drv[d] /\ req'[d] = req[d] /\ rep'[d] = rep[d]
  BY DEF OnlyAt
<1>2. drv[e] # "none"
  BY DEF Alive, Running
<1>3. ASSUME NEW d \in Drivers, handle[d] = "open" PROVE PipesAgree(d)'
  <2>1. CASE d = e
    BY <1>3, <2>1
  <2>2. CASE d # e
    BY <1>1, <1>3, <2>2 DEF SyncInv, PipesAgree, Quiet
  <2> QED
    BY <2>1, <2>2
<1> QED
  BY <1>1, <1>2, <1>3 DEF SyncInv, Live, Held

(* A driver whose pipes are open in the program can answer. *)
LEMMA Answers ==
  ASSUME SyncInv, NEW e \in Drivers, NEW m, NEW next, NEW state, Answer(e, m, next, state)
  PROVE  /\ OnlyAt(e, drv, drv') /\ drv'[e] \in {next, "ended"}
         /\ OnlyAt(e, rep, rep')
         /\ handle[e] = "open" => drv'[e] = next /\ rep'[e] = Append(rep[e], m)
  BY DEF SyncInv, Answer, Becomes, Joined, Held, OnlyAt

(* A driver that begins answers once.                                       *)
LEMMA InitStep ==
  ASSUME SyncInv, NEW e \in Drivers, DriverInit(e) PROVE SyncInv'
<1>1. /\ Alive(e) /\ drv[e] = "init" /\ UNCHANGED <<client, handle, failed, req>>
      /\ \/ Answer(e, Result(TRUE, 0), "listens", inner[e])
         \/ Answer(e, Result(FALSE, 0), "ended", inner[e])
  BY DEF DriverInit, Alive, Running, programVars
<1>2. OnlyAt(e, req, req')
  BY <1>1 DEF OnlyAt, SyncInv
<1>3. /\ OnlyAt(e, drv, drv') /\ OnlyAt(e, rep, rep') /\ drv'[e] # "none"
      /\ handle[e] = "open" =>
           \/ drv'[e] = "listens" /\ rep'[e] = Append(rep[e], Result(TRUE, 0))
           \/ drv'[e] = "ended" /\ rep'[e] = Append(rep[e], Result(FALSE, 0))
  <2>1. CASE Answer(e, Result(TRUE, 0), "listens", inner[e])
    BY <2>1 DEF SyncInv, Answer, Becomes, Joined, Held, OnlyAt
  <2>2. CASE Answer(e, Result(FALSE, 0), "ended", inner[e])
    BY <2>2 DEF SyncInv, Answer, Becomes, Joined, Held, OnlyAt
  <2> QED
    BY <1>1, <2>1, <2>2
<1>4. ASSUME handle[e] = "open" PROVE PipesAgree(e)'
  <2>1. PipesAgree(e)
    BY <1>4 DEF SyncInv
  <2>2. client.at = "start" /\ client.d = e /\ req[e] = <<>> /\ rep[e] = <<>>
    BY <1>1, <2>1 DEF PipesAgree, Exchanging, Quiet, Starting, Asking, Awaiting
  <2>3. \/ drv'[e] = "listens" /\ rep'[e] = <<Result(TRUE, 0)>>
        \/ drv'[e] = "ended" /\ rep'[e] = <<Result(FALSE, 0)>>
    BY <1>3, <1>4, <2>2, Ones
  <2> QED
    BY <1>1, <2>2, <2>3 DEF PipesAgree, Starting, Exchanging
<1> QED
  BY <1>1, <1>2, <1>3, <1>4, DriverSteps

(* The number of a procedure is taken and sent back.                        *)
LEMMA ProcnumStep ==
  ASSUME SyncInv, NEW e \in Drivers, ReceiveProcnum(e) PROVE SyncInv'
<1> DEFINE next == IF HasArgs(Head(req[e]).call) THEN "args" ELSE "serves"
<1>1. /\ Alive(e) /\ drv[e] = "listens" /\ req[e] # <<>> /\ UNCHANGED <<client, handle, failed>>
      /\ req' = [req EXCEPT ![e] = Tail(@)]
      /\ Answer(e, ProcedureOk, next, inner[e])
  BY DEF ReceiveProcnum, Alive, Running, programVars
<1>2. OnlyAt(e, req, req') /\ req'[e] = Tail(req[e])
  BY <1>1 DEF OnlyAt, SyncInv
<1>3. /\ OnlyAt(e, drv, drv') /\ OnlyAt(e, rep, rep') /\ drv'[e] \in {next, "ended"}
      /\ handle[e] = "open" => drv'[e] = next /\ rep'[e] = Append(rep[e], ProcedureOk)
  <2> HIDE DEF next
  <2> QED
    BY <1>1, Answers
<1>4. ASSUME handle[e] = "open" PROVE PipesAgree(e)'
  <2>1. PipesAgree(e)
    BY <1>4 DEF SyncInv
  <2>2. /\ client.at = "procnum" /\ client.d = e
        /\ req[e] = <<Procnum(client.call)>> /\ rep[e] = <<>>
    BY <1>1, <2>1 DEF PipesAgree, Exchanging, Quiet, Starting, Asking, Awaiting
  <2>3. req'[e] = <<>> /\ Head(req[e]).call = client.call
    BY <1>2, <2>2, Ones, Messages
  <2>4. drv'[e] = next /\ rep'[e] = <<ProcedureOk>>
    BY <1>3, <1>4, <2>2, Ones
  <2> QED
    BY <1>1, <2>2, <2>3, <2>4 DEF PipesAgree, Asking, Exchanging
<1> QED
  BY <1>1, <1>2, <1>3, <1>4, DriverSteps

(* A routine answers once, or fails and ends, or ends.                      *)
LEMMA ServingSteps ==
  ASSUME SyncInv, NEW e \in Drivers, drv[e] = "args", req[e] # <<>>,
         req' = [req EXCEPT ![e] = Tail(@)], UNCHANGED <<client, handle, failed>>,
         \/ \E ok, t, state : Replies(e, ok, t, state)
         \/ \E state : Answer(e, Result(FALSE, 0), "ended", state)
         \/ (\E state : Becomes(e, "ended", state)) /\ UNCHANGED rep
  PROVE  SyncInv'
<1>1. Alive(e)
  BY DEF Alive, Running
<1>2. OnlyAt(e, req, req') /\ req'[e] = Tail(req[e])
  BY DEF OnlyAt, SyncInv
<1>3. /\ OnlyAt(e, drv, drv') /\ OnlyAt(e, rep, rep') /\ drv'[e] # "none"
      /\ handle[e] = "open" =>
           \/ drv'[e] = "listens" /\ \E m : IsResult(m) /\ rep'[e] = Append(rep[e], m)
           \/ drv'[e] = "ended" /\ rep'[e] = Append(rep[e], Result(FALSE, 0))
           \/ drv'[e] = "ended" /\ rep'[e] = rep[e]
  <2>1. CASE \E ok, t, state : Replies(e, ok, t, state)
    <3>1. PICK ok, t, state : Answer(e, Result(ok, t), "listens", state)
      BY <2>1 DEF Replies
    <3> DEFINE m == Result(ok, t)
    <3>2. IsResult(m)
      BY Messages
    <3> HIDE DEF m
    <3>3. Answer(e, m, "listens", state)
      BY <3>1 DEF m
    <3>4. /\ OnlyAt(e, drv, drv') /\ OnlyAt(e, rep, rep') /\ drv'[e] # "none"
          /\ handle[e] = "open" => drv'[e] = "listens" /\ rep'[e] = Append(rep[e], m)
      BY <3>3 DEF SyncInv, Answer, Becomes, Joined, Held, OnlyAt
    <3> QED
      BY <3>2, <3>4, Zenon
  <2>2. CASE \E state : Answer(e, Result(FALSE, 0), "ended", state)
    <3>1. PICK state : Answer(e, Result(FALSE, 0), "ended", state)
      BY <2>2
    <3> QED
      BY <3>1 DEF SyncInv, Answer, Becomes, Joined, Held, OnlyAt
  <2>3. CASE (\E state : Becomes(e, "ended", state)) /\ UNCHANGED rep
    BY <2>3 DEF Becomes, OnlyAt, SyncInv
  <2> QED
    BY <2>1, <2>2, <2>3
<1>4. ASSUME handle[e] = "open" PROVE PipesAgree(e)'
  <2>1. PipesAgree(e)
    BY <1>4 DEF SyncInv
  <2>2. \/ /\ client.at = "procnum" /\ client.d = e /\ req[e] = <<>>
        \/ /\ client.at = "result" /\ client.d = e
           /\ req[e] = <<Args(client.call)>> /\ rep[e] = <<>>
    BY <2>1 DEF PipesAgree, Exchanging, Quiet, Starting, Asking, Awaiting
  <2>3. req'[e] = <<>>
    BY <1>2, <2>2, Ones
  <2>4. \/ drv'[e] = "listens" /\ \E m : IsResult(m) /\ rep'[e] = <<m>>
        \/ drv'[e] = "ended" /\ rep'[e] = <<Result(FALSE, 0)>>
        \/ drv'[e] = "ended" /\ rep'[e] = <<>>
    BY <1>3, <1>4, <2>2, Ones
  <2> QED
    BY <2>2, <2>3, <2>4 DEF PipesAgree, Awaiting, Exchanging
<1> QED
  BY <1>1, <1>2, <1>3, <1>4, DriverSteps

(* All the routines with arguments do.                                      *)
LEMMA ServeSteps ==
  ASSUME SyncInv, NEW e \in Drivers,
         \/ ServeOpenDatabase(e) \/ ServeOpenSelect(e) \/ ServeFetch(e)
         \/ ServeCloseCursor(e) \/ ServeExecute(e)
  PROVE  SyncInv'
<1>1. /\ drv[e] = "args" /\ req[e] # <<>> /\ UNCHANGED <<client, handle, failed>>
      /\ req' = [req EXCEPT ![e] = Tail(@)]
  BY DEF ServeOpenDatabase, ServeOpenSelect, ServeFetch, ServeCloseCursor, ServeExecute, Serving, programVars
<1>2. \/ \E ok, t, state : Replies(e, ok, t, state)
      \/ \E state : Answer(e, Result(FALSE, 0), "ended", state)
      \/ (\E state : Becomes(e, "ended", state)) /\ UNCHANGED rep
  <2>1. CASE ServeOpenDatabase(e)
    BY <2>1, Zenon DEF ServeOpenDatabase
  <2>2. CASE ServeOpenSelect(e)
    BY <2>2 DEF ServeOpenSelect
  <2>3. CASE ServeFetch(e)
    BY <2>3 DEF ServeFetch
  <2>4. CASE ServeCloseCursor(e)
    BY <2>4 DEF ServeCloseCursor
  <2>5. CASE ServeExecute(e)
    BY <2>5 DEF ServeExecute
  <2> QED
    BY <2>1, <2>2, <2>3, <2>4, <2>5
<1> QED
  BY <1>1, <1>2, ServingSteps

(* The one without begins to save, or fails at once.                        *)
LEMMA CloseStep ==
  ASSUME SyncInv, NEW e \in Drivers, ServeCloseDatabase(e) PROVE SyncInv'
<1>1. /\ Alive(e) /\ drv[e] = "serves" /\ UNCHANGED <<client, handle, failed, req>>
      /\ \/ (\E state : Becomes(e, "saves", state)) /\ UNCHANGED rep
         \/ Answer(e, Result(FALSE, 0), "listens", inner[e])
  BY DEF ServeCloseDatabase, Replies, Alive, Running, programVars
<1>2. OnlyAt(e, req, req')
  BY <1>1 DEF OnlyAt, SyncInv
<1>3. /\ OnlyAt(e, drv, drv') /\ OnlyAt(e, rep, rep') /\ drv'[e] # "none"
      /\ handle[e] = "open" =>
           \/ drv'[e] = "saves" /\ rep'[e] = rep[e]
           \/ drv'[e] = "listens" /\ rep'[e] = Append(rep[e], Result(FALSE, 0))
  <2>1. CASE (\E state : Becomes(e, "saves", state)) /\ UNCHANGED rep
    BY <2>1 DEF Becomes, OnlyAt, SyncInv
  <2>2. CASE Answer(e, Result(FALSE, 0), "listens", inner[e])
    BY <2>2 DEF SyncInv, Answer, Becomes, Joined, Held, OnlyAt
  <2> QED
    BY <1>1, <2>1, <2>2
<1>4. ASSUME handle[e] = "open" PROVE PipesAgree(e)'
  <2> DEFINE m == Result(FALSE, 0)
  <2>0. IsResult(m)
    BY Messages
  <2> HIDE DEF m
  <2>1. PipesAgree(e)
    BY <1>4 DEF SyncInv
  <2>2. /\ client.d = e /\ ~HasArgs(client.call) /\ req[e] = <<>>
        /\ \/ client.at = "procnum" /\ rep[e] = <<ProcedureOk>>
           \/ client.at = "result" /\ rep[e] = <<>>
    BY <1>1, <2>1 DEF PipesAgree, Exchanging, Quiet, Starting, Asking, Awaiting
  <2>3. \/ drv'[e] = "saves" /\ rep'[e] = rep[e]
        \/ drv'[e] = "listens" /\ rep'[e] = Append(rep[e], m)
    BY <1>3, <1>4 DEF m
  <2>4. /\ Append(<<>>, m) = <<m>>
        /\ Append(<<ProcedureOk>>, m) = <<ProcedureOk, m>>
    BY Ones, Twos
  <2> QED
    BY <1>1, <2>0, <2>2, <2>3, <2>4 DEF PipesAgree, Asking, Awaiting, Exchanging
<1> QED
  BY <1>1, <1>2, <1>3, <1>4, DriverSteps

(* A driver that saves its tables says nothing until it has done so.        *)
LEMMA SaveSteps ==
  ASSUME SyncInv, NEW e \in Drivers, SaveWrites(e) \/ SaveRenames(e) PROVE SyncInv'
<1>1. /\ Alive(e) /\ drv[e] = "saves" /\ UNCHANGED <<client, handle, failed, req, rep>>
      /\ \E state : Becomes(e, "saves", state)
  BY DEF SaveWrites, SaveRenames, PassedOver, Alive, Running, programVars
<1>2. /\ OnlyAt(e, req, req') /\ OnlyAt(e, rep, rep') /\ OnlyAt(e, drv, drv')
      /\ drv'[e] = "saves"
  BY <1>1 DEF OnlyAt, SyncInv, Becomes
<1>3. ASSUME handle[e] = "open" PROVE PipesAgree(e)'
  <2>1. PipesAgree(e)
    BY <1>3 DEF SyncInv
  <2>2. /\ client.d = e /\ ~HasArgs(client.call) /\ req[e] = <<>>
        /\ \/ client.at = "procnum" /\ rep[e] = <<ProcedureOk>>
           \/ client.at = "result" /\ rep[e] = <<>>
    BY <1>1, <2>1 DEF PipesAgree, Exchanging, Quiet, Starting, Asking, Awaiting
  <2> QED
    BY <1>1, <1>2, <2>2 DEF PipesAgree, Asking, Awaiting, Exchanging
<1> QED
  BY <1>1, <1>2, <1>3, DriverSteps

(* And then it answers.                                                     *)
LEMMA CloseRepliesStep ==
  ASSUME SyncInv, NEW e \in Drivers, CloseReplies(e) PROVE SyncInv'
<1> DEFINE m == Result(TRUE, 0)
<1>0. IsResult(m)
  BY Messages
<1>1. /\ Alive(e) /\ drv[e] = "saves" /\ UNCHANGED <<client, handle, failed, req>>
      /\ \E state : Answer(e, m, "listens", state)
  BY DEF CloseReplies, Replies, Alive, Running, programVars
<1> HIDE DEF m
<1>2. OnlyAt(e, req, req')
  BY <1>1 DEF OnlyAt, SyncInv
<1>3. /\ OnlyAt(e, drv, drv') /\ OnlyAt(e, rep, rep') /\ drv'[e] # "none"
      /\ handle[e] = "open" => drv'[e] = "listens" /\ rep'[e] = Append(rep[e], m)
  BY <1>1 DEF SyncInv, Answer, Becomes, Joined, Held, OnlyAt
<1>4. ASSUME handle[e] = "open" PROVE PipesAgree(e)'
  <2>1. PipesAgree(e)
    BY <1>4 DEF SyncInv
  <2>2. /\ client.d = e /\ ~HasArgs(client.call) /\ req[e] = <<>>
        /\ \/ client.at = "procnum" /\ rep[e] = <<ProcedureOk>>
           \/ client.at = "result" /\ rep[e] = <<>>
    BY <1>1, <2>1 DEF PipesAgree, Exchanging, Quiet, Starting, Asking, Awaiting
  <2>3. /\ Append(<<>>, m) = <<m>>
        /\ Append(<<ProcedureOk>>, m) = <<ProcedureOk, m>>
    BY Ones, Twos
  <2> QED
    BY <1>0, <1>1, <1>3, <1>4, <2>2, <2>3 DEF PipesAgree, Asking, Awaiting, Exchanging
<1> QED
  BY <1>1, <1>2, <1>3, <1>4, DriverSteps

(* A driver reads the end of its pipe only when its handle is not open.     *)
LEMMA EndStep ==
  ASSUME SyncInv, NEW e \in Drivers, EndOfRequests(e) PROVE SyncInv'
<1>1. /\ Alive(e) /\ ~Joined(e) /\ UNCHANGED <<client, handle, failed, req, rep>>
      /\ \E state : Becomes(e, "ended", state)
  BY DEF EndOfRequests, Alive, Running, programVars
<1>2. /\ OnlyAt(e, req, req') /\ OnlyAt(e, rep, rep') /\ OnlyAt(e, drv, drv')
      /\ drv'[e] = "ended" /\ handle[e] # "open"
  BY <1>1 DEF OnlyAt, SyncInv, Becomes, Joined, Held
<1> QED
  BY <1>1, <1>2, DriverSteps

(* A driver that is killed leaves what it has answered.                     *)
LEMMA KilledStep ==
  ASSUME SyncInv, NEW e \in Drivers, DriverKilled(e) PROVE SyncInv'
<1>1. /\ Alive(e) /\ UNCHANGED <<client, handle, failed, rep>>
      /\ req' = [req EXCEPT ![e] = <<>>]
      /\ \E state : Becomes(e, "killed", state)
  BY DEF DriverKilled, programVars
<1>2. /\ OnlyAt(e, req, req') /\ OnlyAt(e, rep, rep') /\ OnlyAt(e, drv, drv')
      /\ drv'[e] = "killed" /\ req'[e] = <<>>
  BY <1>1 DEF OnlyAt, SyncInv, Becomes
<1>3. ASSUME handle[e] = "open" PROVE PipesAgree(e)'
  <2>1. PipesAgree(e) /\ drv[e] \in Running
    BY <1>1, <1>3 DEF SyncInv, Alive
  <2>2. CASE client.at = "start" /\ client.d = e
    BY <1>1, <1>2, <2>1, <2>2 DEF PipesAgree, Starting, Exchanging, Running
  <2>3. CASE client.at = "procnum" /\ client.d = e
    BY <1>1, <1>2, <2>1, <2>3 DEF PipesAgree, Asking, Exchanging, Running
  <2>4. CASE client.at = "result" /\ client.d = e
    BY <1>1, <1>2, <2>1, <2>4 DEF PipesAgree, Awaiting, Exchanging, Running
  <2>5. CASE client.at \notin Exchanging \/ client.d # e
    BY <1>1, <1>2, <2>1, <2>5 DEF PipesAgree, Quiet, Exchanging
  <2> QED
    BY <2>2, <2>3, <2>4, <2>5 DEF Exchanging
<1> QED
  BY <1>1, <1>2, <1>3, DriverSteps

-----------------------------------------------------------------------------
(* A step of the program that exchanges with driver e, if with any, before  *)
(* and after it.                                                            *)
LEMMA ProgramSteps ==
  ASSUME SyncInv, NEW e \in Drivers,
         client.at \in Exchanging => client.d = e,
         client'.at \in Exchanging => client'.d = e /\ handle'[e] = "open",
         client'.at \notin {"gone", "killed"},
         OnlyAt(e, handle, handle'), OnlyAt(e, drv, drv'),
         OnlyAt(e, req, req'), OnlyAt(e, rep, rep'),
         handle'[e] # "none", drv'[e] # "none", failed \ {e} \subseteq failed',
         handle'[e] = "open" => PipesAgree(e)'
  PROVE  SyncInv'
<1>1. /\ DOMAIN handle' = Drivers /\ DOMAIN drv' = Drivers
      /\ DOMAIN req' = Drivers /\ DOMAIN rep' = Drivers
      /\ \A d \in Drivers : d # e => /\ handle'[d] = handle[d] /\ drv'[d] = drv[d]
                                    /\ req'[d] = req[d] /\ rep'[d] = rep[d]
  BY DEF OnlyAt
<1>2. ASSUME NEW d \in Drivers, handle'[d] = "open" PROVE PipesAgree(d)'
  <2>1. CASE d = e
    BY <1>2, <2>1
  <2>2. CASE d # e
    <3>1. PipesAgree(d) /\ (client.at \notin Exchanging \/ client.d # d)
      BY <1>1, <1>2, <2>2 DEF SyncInv
    <3>2. Quiet(d)' /\ (client'.at \notin Exchanging \/ client'.d # d)
      BY <1>1, <2>2, <3>1 DEF PipesAgree, Quiet
    <3> QED
      BY <3>2 DEF PipesAgree, Exchanging
  <2> QED
    BY <2>1, <2>2
<1>3. ASSUME NEW d \in Drivers
      PROVE  /\ handle'[d] = "none" <=> drv'[d] = "none"
             /\ drv'[d] = "none" => req'[d] = <<>> /\ rep'[d] = <<>>
  BY <1>1 DEF SyncInv
<1> QED
  BY <1>1, <1>2, <1>3 DEF SyncInv, Live

(* A program that ends holds no pipe.                                       *)
LEMMA ProgramEnds ==
  ASSUME SyncInv, client' \in [at : {"gone", "killed"}, d : {0}, call : {NoCall}], EndsHandles,
         UNCHANGED drv, DOMAIN req' = Drivers, DOMAIN rep' = Drivers,
         \A d \in Drivers : drv[d] = "none" => req'[d] = req[d] /\ rep'[d] = rep[d]
  PROVE  SyncInv'
<1>1. client'.at \in {"gone", "killed"}
  OBVIOUS
<1>2. /\ DOMAIN handle' = Drivers
      /\ \A d \in Drivers : /\ handle'[d] \notin {"open", "lost"}
                            /\ handle'[d] = "none" <=> handle[d] = "none"
  BY DEF EndsHandles, Held
<1> QED
  BY <1>1, <1>2 DEF SyncInv, Exchanging, Held

(* A send reaches a driver that is alive, and ends a program that is wrong. *)
LEMMA Sends ==
  ASSUME NEW e \in Drivers, NEW m, NEW at, NEW call, Send(e, m, at, call), SyncInv
  PROVE  \/ /\ Alive(e) /\ OnlyAt(e, req, req') /\ req'[e] = Append(req[e], m)
            /\ client' = [at |-> at, d |-> e, call |-> call] /\ UNCHANGED <<handle, failed>>
         \/ /\ ~Alive(e) /\ UNCHANGED req /\ EndsHandles
            /\ client' = [at |-> "killed", d |-> 0, call |-> NoCall]
  BY DEF Send, Program, OnlyAt, SyncInv

(* Starting a driver.                                                       *)
LEMMA StartStep ==
  ASSUME SyncInv, NEW e \in Drivers, StartDriver(e) PROVE SyncInv'
<1>1. /\ client.at = "idle" /\ drv[e] = "none" /\ UNCHANGED <<failed, req, rep>>
      /\ drv' = [drv EXCEPT ![e] = "init"] /\ handle' = [handle EXCEPT ![e] = "open"]
      /\ client'.at = "start" /\ client'.d = e
  BY DEF StartDriver, Program
<1>2. /\ OnlyAt(e, drv, drv') /\ OnlyAt(e, handle, handle') /\ OnlyAt(e, req, req')
      /\ OnlyAt(e, rep, rep') /\ drv'[e] = "init" /\ handle'[e] = "open"
      /\ req'[e] = <<>> /\ rep'[e] = <<>>
  BY <1>1 DEF OnlyAt, SyncInv
<1>3. PipesAgree(e)'
  BY <1>1, <1>2 DEF PipesAgree, Starting, Exchanging
<1> QED
  BY <1>1, <1>2, <1>3, ProgramSteps DEF Exchanging

(* Its return code, or the end of its pipe.                                 *)
LEMMA StartedStep ==
  ASSUME SyncInv, NEW e \in Drivers, Started(e) PROVE SyncInv'
<1>1. /\ client.at = "start" /\ client.d = e /\ UNCHANGED <<failed, req, drv>> /\ client'.at = "idle"
      /\ \/ /\ rep[e] # <<>> /\ Head(rep[e]) = Result(TRUE, 0) /\ UNCHANGED handle
            /\ rep' = [rep EXCEPT ![e] = Tail(@)]
         \/ /\ handle' = [handle EXCEPT ![e] = "lost"]
            /\ rep' = [rep EXCEPT ![e] = Tail(@)] \/ UNCHANGED rep
  BY DEF Started, Idle, Program, driverVars
<1>2. /\ OnlyAt(e, drv, drv') /\ OnlyAt(e, handle, handle') /\ OnlyAt(e, req, req')
      /\ OnlyAt(e, rep, rep')
  BY <1>1 DEF OnlyAt, SyncInv
<1>3. handle[e] = "open" /\ PipesAgree(e) /\ drv[e] # "none"
  BY <1>1 DEF SyncInv, Exchanging
<1>4. \/ /\ handle'[e] = "open" /\ rep[e] # <<>> /\ Head(rep[e]) = Result(TRUE, 0)
         /\ rep'[e] = Tail(rep[e])
      \/ handle'[e] = "lost"
  BY <1>1, <1>3 DEF SyncInv
<1>5. ASSUME handle'[e] = "open" PROVE PipesAgree(e)'
  <2>1. Starting(drv[e], req[e], rep[e])
    BY <1>1, <1>3 DEF PipesAgree
  <2> DEFINE yes == Result(TRUE, 0)
             no == Result(FALSE, 0)
  <2>2. /\ yes # no /\ Head(<<no>>) = no
        /\ Head(<<yes>>) = yes /\ Tail(<<yes>>) = <<>>
    BY Ones, Messages
  <2>3. rep[e] # <<>> /\ Head(rep[e]) = yes /\ rep'[e] = Tail(rep[e])
    BY <1>4, <1>5
  <2>4. /\ req[e] = <<>>
        /\ \/ rep[e] = <<>>
           \/ drv[e] \in {"listens", "killed"} /\ rep[e] = <<yes>>
           \/ rep[e] = <<no>>
    BY <2>1 DEF Starting
  <2> HIDE DEF yes, no
  <2>5. drv[e] \in {"listens", "killed"} /\ req[e] = <<>> /\ rep'[e] = <<>>
    BY <2>2, <2>3, <2>4
  <2> QED
    BY <1>1, <2>5 DEF PipesAgree, Quiet, Exchanging
<1> QED
  BY <1>1, <1>2, <1>3, <1>4, <1>5, ProgramSteps DEF Exchanging

(* A call sends its number to a driver that listens.                        *)
LEMMA CallStep ==
  ASSUME SyncInv, NEW e \in Drivers, NEW call, Call(e, call) PROVE SyncInv'
<1>1. /\ client.at = "idle" /\ handle[e] = "open" /\ UNCHANGED <<drv, rep>>
      /\ Send(e, Procnum(call), "procnum", call)
  BY DEF Call, driverVars
<1>2. CASE /\ Alive(e) /\ OnlyAt(e, req, req') /\ req'[e] = Append(req[e], Procnum(call))
           /\ client' = [at |-> "procnum", d |-> e, call |-> call] /\ UNCHANGED <<handle, failed>>
  <2>1. /\ OnlyAt(e, drv, drv') /\ OnlyAt(e, handle, handle') /\ OnlyAt(e, rep, rep')
        /\ client'.at = "procnum" /\ client'.d = e /\ client'.call = call
    BY <1>1, <1>2 DEF OnlyAt, SyncInv
  <2>2. PipesAgree(e) /\ drv[e] \in Running
    BY <1>1, <1>2 DEF SyncInv, Alive
  <2>3. drv[e] = "listens" /\ req[e] = <<>> /\ rep[e] = <<>>
    BY <1>1, <2>2 DEF PipesAgree, Quiet, Exchanging, Running
  <2>4. req'[e] = <<Procnum(call)>>
    BY <1>2, <2>3, Ones
  <2>5. PipesAgree(e)'
    BY <1>1, <2>1, <2>3, <2>4 DEF PipesAgree, Asking, Exchanging
  <2> QED
    BY <1>1, <1>2, <2>1, <2>3, <2>5, ProgramSteps DEF Exchanging
<1>3. CASE /\ ~Alive(e) /\ UNCHANGED req /\ EndsHandles
           /\ client' = [at |-> "killed", d |-> 0, call |-> NoCall]
  BY <1>1, <1>3, ProgramEnds DEF SyncInv
<1> QED
  BY <1>1, <1>2, <1>3, Sends

(* The number has come back: the arguments are sent.                        *)
LEMMA ProcedureStep ==
  ASSUME SyncInv, NEW e \in Drivers, ProcedureStarts(e) PROVE SyncInv'
<1> DEFINE call == client.call
<1>1. /\ client.at = "procnum" /\ client.d = e /\ UNCHANGED drv
      /\ \/ /\ rep[e] # <<>> /\ rep' = [rep EXCEPT ![e] = Tail(@)]
            /\ HasArgs(call) /\ Send(e, Args(call), "result", call)
         \/ /\ rep[e] # <<>> /\ rep' = [rep EXCEPT ![e] = Tail(@)]
            /\ ~HasArgs(call) /\ Program("result", e, call) /\ UNCHANGED <<req, handle, failed>>
         \/ EndOfReplies(e) /\ CallFails(e) /\ UNCHANGED rep
  BY DEF ProcedureStarts, driverVars
<1>2. OnlyAt(e, drv, drv') /\ handle[e] = "open" /\ PipesAgree(e) /\ drv[e] # "none"
  BY <1>1 DEF OnlyAt, SyncInv, Exchanging
<1>3. Asking(call, drv[e], req[e], rep[e])
  BY <1>1, <1>2 DEF PipesAgree
<1>4. ASSUME rep[e] # <<>>, rep' = [rep EXCEPT ![e] = Tail(@)]
      PROVE  /\ OnlyAt(e, rep, rep') /\ req[e] = <<>>
             /\ \/ drv[e] = "args" /\ HasArgs(call) /\ rep'[e] = <<>>
                \/ drv[e] \in {"serves", "saves"} /\ ~HasArgs(call) /\ rep'[e] = <<>>
                \/ /\ drv[e] \in {"listens", "killed"} /\ ~HasArgs(call)
                   /\ \E m : IsResult(m) /\ rep'[e] = <<m>>
                \/ drv[e] = "killed" /\ rep'[e] = <<>>
  <2> HIDE DEF call
  <2>1. OnlyAt(e, rep, rep') /\ rep'[e] = Tail(rep[e])
    BY <1>4 DEF OnlyAt, SyncInv
  <2>2. /\ Tail(<<ProcedureOk>>) = <<>>
        /\ \A m : Tail(<<ProcedureOk, m>>) = <<m>>
    BY Ones, Twos
  <2> QED
    BY <1>3, <1>4, <2>1, <2>2 DEF Asking
<1>5. CASE /\ rep[e] # <<>> /\ rep' = [rep EXCEPT ![e] = Tail(@)]
           /\ HasArgs(call) /\ Send(e, Args(call), "result", call)
  <2>1. CASE /\ Alive(e) /\ OnlyAt(e, req, req') /\ req'[e] = Append(req[e], Args(call))
             /\ client' = [at |-> "result", d |-> e, call |-> call] /\ UNCHANGED <<handle, failed>>
    <3>1. OnlyAt(e, handle, handle') /\ client'.at = "result" /\ client'.d = e /\ client'.call = call
      BY <2>1 DEF OnlyAt, SyncInv
    <3>2. req[e] = <<>> /\ drv[e] = "args" /\ rep'[e] = <<>> /\ OnlyAt(e, rep, rep')
      BY <1>4, <1>5, <2>1 DEF Alive, Running
    <3>3. req'[e] = <<Args(call)>>
      BY <2>1, <3>2, Ones
    <3>4. PipesAgree(e)'
      BY <1>1, <1>5, <3>1, <3>2, <3>3 DEF PipesAgree, Awaiting, Exchanging
    <3> QED
      BY <1>1, <1>2, <2>1, <3>1, <3>2, <3>4, ProgramSteps DEF Exchanging
  <2>2. CASE /\ ~Alive(e) /\ UNCHANGED req /\ EndsHandles
             /\ client' = [at |-> "killed", d |-> 0, call |-> NoCall]
    <3>1. OnlyAt(e, rep, rep')
      BY <1>4, <1>5
    <3>2. DOMAIN rep' = Drivers /\ \A d \in Drivers : drv[d] = "none" => rep'[d] = rep[d]
      BY <1>2, <3>1 DEF OnlyAt
    <3> QED
      BY <1>1, <2>2, <3>2, ProgramEnds DEF SyncInv
  <2> QED
    BY <1>5, <2>1, <2>2, Sends
<1>6. CASE /\ rep[e] # <<>> /\ rep' = [rep EXCEPT ![e] = Tail(@)]
           /\ ~HasArgs(call) /\ Program("result", e, call) /\ UNCHANGED <<req, handle, failed>>
  <2>1. /\ OnlyAt(e, handle, handle') /\ OnlyAt(e, req, req') /\ OnlyAt(e, rep, rep')
        /\ client'.at = "result" /\ client'.d = e /\ client'.call = call
    BY <1>4, <1>6 DEF OnlyAt, SyncInv, Program
  <2>2. PipesAgree(e)'
    BY <1>1, <1>4, <1>6, <2>1 DEF PipesAgree, Awaiting, Exchanging
  <2> QED
    BY <1>1, <1>2, <1>6, <2>1, <2>2, ProgramSteps DEF Exchanging
<1>7. CASE EndOfReplies(e) /\ CallFails(e) /\ UNCHANGED rep
  <2>1. /\ OnlyAt(e, handle, handle') /\ OnlyAt(e, req, req') /\ OnlyAt(e, rep, rep')
        /\ client'.at = "idle" /\ failed' = failed \cup {e} /\ UNCHANGED <<handle, req, rep>>
    BY <1>7 DEF OnlyAt, SyncInv, CallFails, Idle, Program
  <2>2. drv[e] = "killed" /\ req[e] = <<>> /\ rep[e] = <<>>
    BY <1>3, <1>7, Ones, Twos DEF Asking, EndOfReplies, Alive, Running
  <2>3. PipesAgree(e)'
    BY <1>1, <2>1, <2>2 DEF PipesAgree, Quiet, Exchanging
  <2> QED
    BY <1>1, <1>2, <2>1, <2>3, ProgramSteps DEF Exchanging
<1> QED
  BY <1>1, <1>5, <1>6, <1>7

(* The result has come, or the pipe has ended.                              *)
LEMMA ReturnStep ==
  ASSUME SyncInv, NEW e \in Drivers, CallReturns(e) PROVE SyncInv'
<1>1. /\ client.at = "result" /\ client.d = e /\ client'.at = "idle" /\ UNCHANGED <<drv, handle, req>>
      /\ \/ rep[e] # <<>> /\ rep' = [rep EXCEPT ![e] = Tail(@)] /\ Head(rep[e]).ok /\ failed' = failed \ {e}
         \/ rep[e] # <<>> /\ rep' = [rep EXCEPT ![e] = Tail(@)] /\ failed' = failed \cup {e}
         \/ EndOfReplies(e) /\ UNCHANGED rep /\ failed' = failed \cup {e}
  BY DEF CallReturns, CallFails, Idle, Program, driverVars
<1>2. /\ OnlyAt(e, drv, drv') /\ OnlyAt(e, handle, handle') /\ OnlyAt(e, req, req')
      /\ OnlyAt(e, rep, rep') /\ handle[e] = "open" /\ PipesAgree(e) /\ drv[e] # "none"
  BY <1>1 DEF OnlyAt, SyncInv, Exchanging
<1>3. Awaiting(client.call, drv[e], req[e], rep[e])
  BY <1>1, <1>2 DEF PipesAgree
<1>4. /\ \A m : Head(<<m>>) = m /\ Tail(<<m>>) = <<>> /\ <<m>> # <<>>
      /\ \A t : ~Result(FALSE, t).ok
  BY Ones, Messages
<1>5. PipesAgree(e)'
  <2>1. CASE rep[e] # <<>> /\ rep' = [rep EXCEPT ![e] = Tail(@)] /\ Head(rep[e]).ok /\ failed' = failed \ {e}
    <3>1. rep'[e] = Tail(rep[e])
      BY <2>1 DEF SyncInv
    <3>2. drv[e] \in {"listens", "killed"} /\ req[e] = <<>> /\ rep'[e] = <<>>
      BY <1>3, <1>4, <2>1, <3>1 DEF Awaiting
    <3> QED
      BY <1>1, <3>2 DEF PipesAgree, Quiet, Exchanging
  <2>2. CASE rep[e] # <<>> /\ rep' = [rep EXCEPT ![e] = Tail(@)] /\ failed' = failed \cup {e}
    <3>1. rep'[e] = Tail(rep[e])
      BY <2>2 DEF SyncInv
    <3>2. drv[e] \in {"listens", "killed", "ended"} /\ req[e] = <<>> /\ rep'[e] = <<>>
      BY <1>3, <1>4, <2>2, <3>1 DEF Awaiting
    <3> QED
      BY <1>1, <2>2, <3>2 DEF PipesAgree, Quiet, Exchanging
  <2>3. CASE EndOfReplies(e) /\ UNCHANGED rep /\ failed' = failed \cup {e}
    <3>1. drv[e] \in {"killed", "ended"} /\ req[e] = <<>> /\ rep[e] = <<>>
      BY <1>3, <1>4, <2>3 DEF Awaiting, EndOfReplies, Alive, Running
    <3> QED
      BY <1>1, <2>3, <3>1 DEF PipesAgree, Quiet, Exchanging
  <2> QED
    BY <1>1, <2>1, <2>2, <2>3
<1> QED
  BY <1>1, <1>2, <1>5, ProgramSteps DEF Exchanging

(* Shutting down a driver closes its handle.                                *)
LEMMA ShutdownSteps ==
  ASSUME SyncInv, NEW e \in Drivers, Shutdown(e) \/ WaitReturns(e) PROVE SyncInv'
<1>1. /\ client.at \in {"idle", "wait"} /\ client'.at \in {"idle", "wait"} /\ UNCHANGED <<drv, req, rep>>
      /\ \/ handle[e] = "open" /\ handle' = [handle EXCEPT ![e] = "closed"] /\ failed' = failed \ {e}
         \/ UNCHANGED <<handle, failed>>
  BY DEF Shutdown, WaitReturns, Program, Idle, driverVars
<1>2. ASSUME handle[e] = "open", handle' = [handle EXCEPT ![e] = "closed"], failed' = failed \ {e}
      PROVE  SyncInv'
  <2>1. /\ OnlyAt(e, drv, drv') /\ OnlyAt(e, handle, handle') /\ OnlyAt(e, req, req')
        /\ OnlyAt(e, rep, rep') /\ handle'[e] = "closed" /\ drv[e] # "none"
    BY <1>1, <1>2 DEF OnlyAt, SyncInv
  <2> QED
    BY <1>1, <1>2, <2>1, ProgramSteps DEF Exchanging
<1>3. ASSUME UNCHANGED <<handle, failed>> PROVE SyncInv'
  BY <1>1, <1>3 DEF SyncInv, PipesAgree, Quiet, Exchanging, Live, Held
<1> QED
  BY <1>1, <1>2, <1>3

(* The program ends, or is killed.                                          *)
LEMMA EndSteps ==
  ASSUME SyncInv, Exit \/ ProgramKilled PROVE SyncInv'
<1>1. /\ client' \in [at : {"gone", "killed"}, d : {0}, call : {NoCall}]
      /\ EndsHandles /\ UNCHANGED <<drv, req, rep>>
  BY DEF Exit, ProgramKilled, Program, driverVars
<1> QED
  BY <1>1, ProgramEnds DEF SyncInv

-----------------------------------------------------------------------------
(* At first there is no driver.                                             *)
LEMMA SyncInit == Init => SyncInv
  BY DEF Init, SyncInv, Live, Exchanging

(* Every step keeps the exchanges in step.                                  *)
LEMMA SyncNext ==
  ASSUME SyncInv, [Next]_vars PROVE SyncInv'
<1>1. CASE UNCHANGED vars
  BY <1>1 DEF vars, programVars, driverVars, SyncInv, PipesAgree, Quiet, Live, Held
<1>2. ASSUME NEW e \in Drivers, ProgramGoesOn(e) PROVE SyncInv'
  BY <1>2, StartedStep, ProcedureStep, ReturnStep, ShutdownSteps DEF ProgramGoesOn
<1>3. ASSUME NEW e \in Drivers, DriverGoesOn(e) PROVE SyncInv'
  <2>1. CASE Serve(e)
    BY <2>1, ServeSteps, CloseStep DEF Serve
  <2>2. CASE Save(e)
    BY <2>2, SaveSteps, CloseRepliesStep DEF Save
  <2> QED
    BY <1>3, <2>1, <2>2, InitStep, ProcnumStep, EndStep DEF DriverGoesOn
<1>4. ASSUME NEW e \in Drivers, ProgramChooses(e) PROVE SyncInv'
  BY <1>4, StartStep, CallStep, ShutdownSteps DEF ProgramChooses
<1>5. ASSUME NEW e \in Drivers, DriverKilled(e) PROVE SyncInv'
  BY <1>5, KilledStep
<1> QED
  BY <1>1, <1>2, <1>3, <1>4, <1>5, EndSteps DEF Next

(* Between two calls nothing is left in the pipes of a driver the program   *)
(* has a handle of, and one that has ended was killed or failed last: a     *)
(* reply is never taken for that of another call (db__start_procedure_call, *)
(* db__recv_return_code and the loop of db_driver), for any number of       *)
(* drivers, whichever of them are killed, and whenever.                     *)
THEOREM AlwaysInSync == Spec => []InSync
<1>1. SyncInv => InSync
  BY DEF SyncInv, InSync, PipesAgree, Quiet, Exchanging
<1>2. SyncInv /\ [Next]_vars => SyncInv'
  BY SyncNext
<1> QED
  BY SyncInit, <1>1, <1>2, PTL DEF Spec
=============================================================================
