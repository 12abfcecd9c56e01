-------------------------- MODULE RliDaemonProofs --------------------------
(***************************************************************************)
(* The areas of r.li.daemon on their way from the daemon to a worker and    *)
(* back: every area is in one place at a time, and every worker has one job *)
(* at a time, for any number of workers and of areas, whichever workers     *)
(* fail to start or die.  If all of them start, live and open their pipe in *)
(* time, calculateIndex does what RliFarm promises and leaves no worker.    *)
(***************************************************************************)
EXTENDS RliDaemon, FiniteSetTheorems, WellFoundedInduction, TLAPS

Commands == [Workers -> Seq(Areas \cup {Term})]
Reports  == Seq(Report)

(* Area a is in none of the command pipes c, reports r, and hands of the    *)
(* workers (p: where they are, j: their jobs).                              *)
Nowhere(a, c, p, j, r) ==
    /\ \A w \in Workers : p[w] = "compute" => j[w] # a
    /\ \A w \in Workers : \A k \in DOMAIN c[w] : c[w][k] # a
    /\ \A k \in DOMAIN r : r[k].aid # a

(* Every area is at most once in them.                                      *)
PipesOnce(c) ==
    \A w, v \in Workers : \A k \in DOMAIN c[w] : \A l \in DOMAIN c[v] :
        c[w][k] # Term /\ c[w][k] = c[v][l] => w = v /\ k = l
HandsOnce(p, j) ==
    \A w, v \in Workers : p[w] = "compute" /\ p[v] = "compute" /\ j[w] = j[v] => w = v
ReportsOnce(r) == \A k, l \in DOMAIN r : r[k].aid = r[l].aid => k = l
PipesOrHands(c, p, j) ==
    \A w, v \in Workers : p[w] = "compute" => \A k \in DOMAIN c[v] : c[v][k] # j[w]
HandsOrReports(p, j, r) ==
    \A w \in Workers : p[w] = "compute" => \A k \in DOMAIN r : r[k].aid # j[w]
PipesOrReports(c, r) ==
    \A w \in Workers : \A k \in DOMAIN c[w] : \A l \in DOMAIN r : c[w][k] # r[l].aid
OnePlace(c, p, j, r) ==
    /\ PipesOnce(c) /\ HandsOnce(p, j) /\ ReportsOnce(r)
    /\ PipesOrHands(c, p, j) /\ HandsOrReports(p, j, r) /\ PipesOrReports(c, r)

-----------------------------------------------------------------------------
(* Reading a report takes its area out of play.                             *)
LEMMA TakeReport ==
  ASSUME NEW c, NEW p, NEW j, NEW r \in Reports, r # <<>>, OnePlace(c, p, j, r)
  PROVE  /\ Tail(r) \in Reports /\ Head(r) \in Report
         /\ OnePlace(c, p, j, Tail(r))
         /\ Nowhere(Head(r).aid, c, p, j, Tail(r))
         /\ \A a : Nowhere(a, c, p, j, r) => Nowhere(a, c, p, j, Tail(r)) /\ a # Head(r).aid
<1>1. /\ Tail(r) \in Reports /\ Head(r) \in Report /\ Head(r) = r[1] /\ 1 \in DOMAIN r
      /\ \A k \in DOMAIN Tail(r) : k \in Nat /\ k >= 1 /\ k + 1 \in DOMAIN r /\ Tail(r)[k] = r[k + 1]
  BY DEF Reports
<1>2. ReportsOnce(Tail(r))
  BY <1>1 DEF OnePlace, ReportsOnce
<1>3. HandsOrReports(p, j, Tail(r)) /\ PipesOrReports(c, Tail(r))
  BY <1>1 DEF OnePlace, HandsOrReports, PipesOrReports
<1>4. \A k \in DOMAIN Tail(r) : Tail(r)[k].aid # Head(r).aid
  <2> TAKE k \in DOMAIN Tail(r)
  <2>1. k + 1 # 1 /\ k + 1 \in DOMAIN r /\ Tail(r)[k] = r[k + 1]
    BY <1>1
  <2> QED
    BY <1>1, <2>1 DEF OnePlace, ReportsOnce
<1>5. Nowhere(Head(r).aid, c, p, j, Tail(r))
  BY <1>1, <1>4 DEF OnePlace, HandsOrReports, PipesOrReports, Nowhere
<1>6. \A a : Nowhere(a, c, p, j, r) => Nowhere(a, c, p, j, Tail(r)) /\ a # Head(r).aid
  BY <1>1 DEF Nowhere
<1> QED
  BY <1>1, <1>2, <1>3, <1>5, <1>6 DEF OnePlace

(* Command pipes d are c after m was sent to w; commands, places and jobs   *)
(* (d, q, h) are (c, p, j) after w took a command.                          *)
Sends(c, d, w, m) ==
    d[w] = Append(c[w], m) /\ \A v \in Workers : v # w => d[v] = c[v]
Takes(c, d, p, q, j, h, w) ==
    /\ c[w] # <<>> /\ p[w] # "compute" /\ d[w] = Tail(c[w])
    /\ \A v \in Workers : v # w => d[v] = c[v] /\ q[v] = p[v] /\ h[v] = j[v]
    /\ \/ Head(c[w]) = Term /\ q[w] = "ended"
       \/ Head(c[w]) # Term /\ q[w] = "compute" /\ h[w] = Head(c[w])
HandsHoldAreas(p, j) == \A v \in Workers : p[v] = "compute" => j[v] \in Areas
MaySend(m, c, p, j, r) == m = Term \/ Nowhere(m, c, p, j, r)
SendKeeps(m, c, d, p, j, r) ==
    \A a : a # m /\ Nowhere(a, c, p, j, r) => Nowhere(a, d, p, j, r)
TakeKeeps(c, d, p, q, j, h, r) ==
    \A a : Nowhere(a, c, p, j, r) => Nowhere(a, d, q, h, r)

(* Sending an area that is nowhere, or the end, keeps each area in one      *)
(* place, and no other area enters play.                                    *)
LEMMA SendJob ==
  ASSUME NEW c \in Commands, NEW p, NEW j, NEW r, NEW w \in Workers, NEW d \in Commands,
         NEW m \in Areas \cup {Term}, OnePlace(c, p, j, r),
         Sends(c, d, w, m), r \in Reports, HandsHoldAreas(p, j), MaySend(m, c, p, j, r)
  PROVE  OnePlace(d, p, j, r) /\ SendKeeps(m, c, d, p, j, r)
<1> USE DEF Sends, HandsHoldAreas, MaySend, SendKeeps
<1>1. \A v \in Workers : v # w => d[v] = c[v]
  OBVIOUS
<1>2. /\ c[w] \in Seq(Areas \cup {Term}) /\ d[w] = Append(c[w], m)
  BY DEF Commands
<1>3. /\ DOMAIN d[w] = DOMAIN c[w] \cup {Len(c[w]) + 1} /\ Len(c[w]) + 1 \notin DOMAIN c[w]
      /\ d[w][Len(c[w]) + 1] = m
      /\ \A k \in DOMAIN c[w] : d[w][k] = c[w][k]
  BY <1>2
<1>4. \A v \in Workers : \A k \in DOMAIN d[v] :
        \/ k \in DOMAIN c[v] /\ d[v][k] = c[v][k]
        \/ v = w /\ k = Len(c[w]) + 1 /\ d[v][k] = m
  BY <1>1, <1>3
<1>5. Term \notin Areas
  BY DEF Term, Areas
<1>6. \A l \in DOMAIN r : r[l].aid \in Areas
  <2>1. \A l \in DOMAIN r : r[l] \in Report
    BY DEF Reports
  <2> QED
    BY <2>1 DEF Report
<1>7. PipesOnce(d)
  BY <1>4 DEF OnePlace, PipesOnce, Nowhere
<1>8. PipesOrHands(d, p, j)
  BY <1>4, <1>5 DEF OnePlace, PipesOrHands, Nowhere
<1>9. PipesOrReports(d, r)
  BY <1>4, <1>5, <1>6 DEF OnePlace, PipesOrReports, Nowhere
<1>10. \A a : a # m /\ Nowhere(a, c, p, j, r) => Nowhere(a, d, p, j, r)
  BY <1>4 DEF Nowhere
<1> QED
  BY <1>7, <1>8, <1>9, <1>10 DEF OnePlace

(* A worker that takes an area out of its pipe holds it instead.            *)
LEMMA TakeCommand ==
  ASSUME NEW c \in Commands, NEW p, NEW j, NEW r, NEW w \in Workers,
         NEW d, NEW q, NEW h, OnePlace(c, p, j, r), Takes(c, d, p, q, j, h, w)
  PROVE  OnePlace(d, q, h, r) /\ TakeKeeps(c, d, p, q, j, h, r)
<1> USE DEF Takes, TakeKeeps
<1>1. /\ c[w] \in Seq(Areas \cup {Term}) /\ 1 \in DOMAIN c[w] /\ Head(c[w]) = c[w][1]
      /\ Tail(c[w]) \in Seq(Areas \cup {Term}) /\ Head(c[w]) \in Areas \cup {Term}
      /\ \A k \in DOMAIN Tail(c[w]) :
            k \in Nat /\ k >= 1 /\ k + 1 \in DOMAIN c[w] /\ Tail(c[w])[k] = c[w][k + 1]
  BY DEF Commands
<1>3. \A v \in Workers : \A k \in DOMAIN d[v] :
        \/ v # w /\ k \in DOMAIN c[v] /\ d[v][k] = c[v][k]
        \/ v = w /\ k \in Nat /\ k >= 1 /\ k + 1 \in DOMAIN c[w] /\ d[v][k] = c[w][k + 1]
  BY <1>1 DEF Commands
<1>4. PipesOnce(d)
  <2> SUFFICES ASSUME NEW u \in Workers, NEW v \in Workers,
                      NEW k \in DOMAIN d[u], NEW l \in DOMAIN d[v],
                      d[u][k] # Term, d[u][k] = d[v][l]
               PROVE  u = v /\ k = l
    BY DEF PipesOnce
  <2>1. CASE u # w /\ v # w
    BY <1>3, <2>1 DEF OnePlace, PipesOnce
  <2>2. CASE u = w /\ v = w
    <3>1. k \in Nat /\ l \in Nat /\ k + 1 = l + 1
      BY <1>3, <2>2 DEF OnePlace, PipesOnce
    <3> QED
      BY <2>2, <3>1
  <2>3. CASE u = w /\ v # w
    BY <1>3, <2>3 DEF OnePlace, PipesOnce
  <2>4. CASE u # w /\ v = w
    BY <1>3, <2>4 DEF OnePlace, PipesOnce
  <2> QED
    BY <2>1, <2>2, <2>3, <2>4
<1>5. PipesOrReports(d, r)
  BY <1>3 DEF OnePlace, PipesOrReports
<1>6. CASE Head(c[w]) = Term
  <2>1. \A v \in Workers : q[v] = "compute" => p[v] = "compute" /\ h[v] = j[v]
    BY <1>6
  <2>2. HandsOnce(q, h) /\ HandsOrReports(q, h, r)
    BY <2>1 DEF OnePlace, HandsOnce, HandsOrReports
  <2>3. PipesOrHands(d, q, h)
    BY <1>3, <2>1 DEF OnePlace, PipesOrHands
  <2>4. \A a : Nowhere(a, c, p, j, r) => Nowhere(a, d, q, h, r)
    BY <1>3, <2>1 DEF Nowhere
  <2> QED
    BY <1>4, <1>5, <2>2, <2>3, <2>4 DEF OnePlace
<1>7. CASE Head(c[w]) # Term
  <2>0. Head(c[w]) = c[w][1] /\ c[w][1] # Term
    BY <1>1, <1>7
  <2>1. /\ \A v \in Workers : v # w /\ q[v] = "compute" => p[v] = "compute" /\ h[v] = j[v]
        /\ h[w] = c[w][1]
    BY <1>1, <1>7
  <2>2. HandsOnce(q, h)
    BY <1>1, <2>1 DEF OnePlace, HandsOnce, PipesOrHands
  <2>3. HandsOrReports(q, h, r)
    BY <1>1, <2>1 DEF OnePlace, HandsOrReports, PipesOrReports
  <2>4. PipesOrHands(d, q, h)
    <3> SUFFICES ASSUME NEW u \in Workers, NEW v \in Workers, q[u] = "compute",
                        NEW k \in DOMAIN d[v], d[v][k] = h[u]
                 PROVE  FALSE
      BY DEF PipesOrHands
    <3>1. CASE u # w
      BY <1>3, <2>1, <3>1 DEF OnePlace, PipesOrHands
    <3>2. CASE u = w
      <4>1. d[v][k] = c[w][1]
        BY <2>1, <3>2
      <4>2. CASE v # w
        BY <1>1, <1>3, <2>0, <4>1, <4>2 DEF OnePlace, PipesOnce
      <4>3. CASE v = w
        <5>1. k \in Nat /\ k >= 1 /\ k + 1 \in DOMAIN c[w] /\ c[w][k + 1] = c[w][1]
          BY <1>3, <4>1, <4>3
        <5>2. k + 1 = 1
          BY <1>1, <2>0, <5>1 DEF OnePlace, PipesOnce
        <5> QED
          BY <5>1, <5>2
      <4> QED
        BY <4>2, <4>3
    <3> QED
      BY <3>1, <3>2
  <2>5. ASSUME NEW a, Nowhere(a, c, p, j, r) PROVE Nowhere(a, d, q, h, r)
    <3>1. \A v \in Workers : q[v] = "compute" => h[v] # a
      BY <1>1, <2>1, <2>5 DEF Nowhere
    <3>2. \A v \in Workers : \A k \in DOMAIN d[v] : d[v][k] # a
      BY <1>3, <2>5 DEF Nowhere
    <3> QED
      BY <2>5, <3>1, <3>2 DEF Nowhere
  <2> QED
    BY <1>4, <1>5, <2>2, <2>3, <2>4, <2>5 DEF OnePlace
<1> QED
  BY <1>6, <1>7

(* A worker that reports an area no longer holds it.                        *)
LEMMA PutReport ==
  ASSUME NEW c, NEW p, NEW j, NEW r \in Reports, NEW w \in Workers, NEW q, NEW e \in Report,
         OnePlace(c, p, j, r), p \in [Workers -> WPCs], p[w] = "compute",
         q = [p EXCEPT ![w] = "receive"], e.aid = j[w]
  PROVE  /\ OnePlace(c, q, j, Append(r, e))
         /\ \A a : Nowhere(a, c, p, j, r) => Nowhere(a, c, q, j, Append(r, e))
<1>1. /\ DOMAIN Append(r, e) = DOMAIN r \cup {Len(r) + 1} /\ Len(r) + 1 \notin DOMAIN r
      /\ Append(r, e)[Len(r) + 1] = e
      /\ \A k \in DOMAIN r : Append(r, e)[k] = r[k]
  BY DEF Reports
<1>2. \A v \in Workers : q[v] = "compute" => v # w /\ p[v] = "compute"
  OBVIOUS
<1>3. HandsOnce(q, j) /\ PipesOrHands(c, q, j)
  BY <1>2 DEF OnePlace, HandsOnce, PipesOrHands
<1>4. ReportsOnce(Append(r, e))
  BY <1>1 DEF OnePlace, ReportsOnce, HandsOrReports
<1>5. HandsOrReports(q, j, Append(r, e))
  BY <1>1, <1>2 DEF OnePlace, HandsOrReports, HandsOnce
<1>6. PipesOrReports(c, Append(r, e))
  BY <1>1 DEF OnePlace, PipesOrReports, PipesOrHands
<1>7. \A a : Nowhere(a, c, p, j, r) => Nowhere(a, c, q, j, Append(r, e))
  BY <1>1, <1>2 DEF Nowhere
<1> QED
  BY <1>3, <1>4, <1>5, <1>6, <1>7 DEF OnePlace

-----------------------------------------------------------------------------
Place == OnePlace(command, wpc, job, report)
Gone(a) == Nowhere(a, command, wpc, job, report)

(* The daemon's variables as far as the argument needs them.                *)
Typed ==
    /\ setup \in AnySetup
    /\ i \in Nat /\ withoutJob \in Nat /\ next \in 0 .. setup.areas /\ (pc = "body" => next < setup.areas)
    /\ wpc \in [Workers -> WPCs] /\ job \in [Workers -> Nat]
    /\ \A w \in Workers : wpc[w] = "compute" => job[w] \in Areas
    /\ command \in Commands /\ report \in Reports
    /\ doneJob \in Report \cup {NoReport}
    /\ out \in [Areas -> Nat] /\ misread \in BOOLEAN

(* Areas not handed out yet are nowhere and not in the output; nor is the   *)
(* area of the last report read still on its way.                           *)
Ahead == \A a \in Areas : next <= a => Gone(a) /\ out[a] = 0
ReportGone == doneJob \in Report => Gone(doneJob.aid) /\ doneJob.aid < next
OutGone == \A a \in Areas : out[a] > 0 => Gone(a)

FarmInv == Typed /\ Place /\ Ahead /\ ReportGone /\ OutGone /\ AtMostOnce

LEMMA NextIsArea ==
  ASSUME setup \in AnySetup, NEW n \in 0 .. setup.areas, n < setup.areas, RliDaemonAssumption
  PROVE  n \in Areas /\ n # Term /\ n + 1 \in 0 .. setup.areas /\ n \in Int
<1>1. setup.areas \in 0 .. NAreas /\ NAreas \in Nat
  BY DEF AnySetup, RliDaemonAssumption
<1> QED
  BY <1>1 DEF Areas, Term

LEMMA NoReportIsNone == NoReport \notin Report /\ NoReport.type = "none" /\ NoReport.pid \notin Workers
BY RliDaemonAssumption DEF NoReport, Report, Workers

LEMMA FarmInit == ASSUME Init, RliDaemonAssumption PROVE FarmInv
<1>1. Typed
  <2>1. command \in Commands /\ report \in Reports
    BY DEF Init, Commands, Reports
  <2>2. wpc \in [Workers -> WPCs] /\ job \in [Workers -> Nat] /\ \A w \in Workers : wpc[w] # "compute"
    BY DEF Init, WPCs
  <2>3. out \in [Areas -> Nat]
    BY DEF Init
  <2>4. /\ setup \in AnySetup
        /\ i \in Nat /\ withoutJob \in Nat /\ next \in 0 .. setup.areas /\ pc # "body"
    BY DEF Init, RliDaemonAssumption, AnySetup
  <2> QED
    BY <2>1, <2>2, <2>3, <2>4 DEF Init, Typed
<1>2. /\ \A w \in Workers : wpc[w] # "compute" /\ command[w] = <<>>
      /\ report = <<>> /\ doneJob \notin Report /\ \A a \in Areas : out[a] = 0
  BY NoReportIsNone DEF Init
<1>3. Place
  BY <1>2 DEF Place, OnePlace, PipesOnce, HandsOnce, ReportsOnce, PipesOrHands, HandsOrReports,
     PipesOrReports
<1>4. \A a : Gone(a)
  BY <1>2 DEF Gone, Nowhere
<1> QED
  BY <1>1, <1>2, <1>3, <1>4 DEF FarmInv, Ahead, ReportGone, OutGone, AtMostOnce

(* What reading a report, or finding none, and putting it in the output     *)
(* leave.                                                                   *)
LEMMA Served ==
  ASSUME FarmInv, Receive, Output(doneJob')
  PROVE  /\ report' \in Reports /\ doneJob' \in Report \cup {NoReport}
         /\ out' \in [Areas -> Nat] /\ misread' \in BOOLEAN
         /\ OnePlace(command, wpc, job, report')
         /\ \A a \in Areas : next <= a => Nowhere(a, command, wpc, job, report') /\ out'[a] = 0
         /\ doneJob' \in Report => /\ Nowhere(doneJob'.aid, command, wpc, job, report')
                                  /\ doneJob'.aid < next
         /\ \A a \in Areas : out'[a] > 0 => Nowhere(a, command, wpc, job, report')
         /\ ~misread' => \A a \in Areas : out'[a] <= 1
<1> USE DEF FarmInv, Typed
<1>1. CASE report # <<>> /\ doneJob' = Head(report) /\ report' = Tail(report) /\ misread' = misread
  <2>1. /\ report' \in Reports /\ doneJob' \in Report
        /\ OnePlace(command, wpc, job, report')
        /\ Nowhere(doneJob'.aid, command, wpc, job, report')
        /\ \A a : Gone(a) => Nowhere(a, command, wpc, job, report') /\ a # doneJob'.aid
    BY <1>1, TakeReport DEF Place, Gone
  <2>2. doneJob'.aid \in Areas /\ doneJob'.aid \in Int
    BY <2>1 DEF Report, Areas
  <2>3. ~Gone(doneJob'.aid)
    BY <2>1
  <2>4. doneJob'.aid < next /\ out[doneJob'.aid] = 0
    BY <2>2, <2>3 DEF Ahead, OutGone
  <2>5. \/ out' = out
        \/ out' = [out EXCEPT ![doneJob'.aid] = out[doneJob'.aid] + 1]
    BY DEF Output
  <2>6. out' \in [Areas -> Nat] /\ \A a \in Areas : a # doneJob'.aid => out'[a] = out[a]
    BY <2>2, <2>5
  <2>7. out'[doneJob'.aid] <= 1
    BY <2>2, <2>4, <2>5
  <2>8. \A a \in Areas : next <= a => Nowhere(a, command, wpc, job, report') /\ out'[a] = 0
    BY <2>1, <2>6 DEF Ahead
  <2>9. \A a \in Areas : out'[a] > 0 => Nowhere(a, command, wpc, job, report')
    BY <2>1, <2>6 DEF OutGone
  <2>10. ~misread' => \A a \in Areas : out'[a] <= 1
    BY <1>1, <2>6, <2>7 DEF AtMostOnce
  <2> QED
    BY <1>1, <2>1, <2>4, <2>6, <2>8, <2>9, <2>10
<1>2. CASE misread' = TRUE /\ doneJob' = doneJob /\ report' = report
  <2>1. CASE doneJob \in Report
    <3>1. doneJob.aid \in Areas /\ Gone(doneJob.aid) /\ doneJob.aid < next /\ doneJob.aid \in Int
      BY <2>1 DEF Report, ReportGone, Areas
    <3>2. \/ out' = out
          \/ out' = [out EXCEPT ![doneJob.aid] = out[doneJob.aid] + 1]
      BY <1>2 DEF Output
    <3>3. out' \in [Areas -> Nat] /\ \A a \in Areas : a # doneJob.aid => out'[a] = out[a]
      BY <3>1, <3>2
    <3>4. \A a \in Areas : next <= a => a # doneJob.aid
      BY <3>1 DEF Areas
    <3> QED
      BY <1>2, <2>1, <3>1, <3>3, <3>4 DEF Place, Gone, Ahead, OutGone
  <2>2. CASE doneJob \notin Report
    <3>1. out' = out
      BY <1>2, <2>2, NoReportIsNone DEF Output
    <3> QED
      BY <1>2, <2>2, <3>1 DEF Place, Gone, Ahead, OutGone
  <2> QED
    BY <2>1, <2>2
<1> QED
  BY <1>1, <1>2 DEF Receive

(* What sending an area, or the end, to a worker leaves of it.              *)
LEMMA Sent ==
  ASSUME NEW w, NEW m \in Areas \cup {Term}, NEW to, Send(w, m, to), NEW r \in Reports,
         command \in Commands, OnePlace(command, wpc, job, r),
         HandsHoldAreas(wpc, job), MaySend(m, command, wpc, job, r)
  PROVE  /\ command' \in Commands /\ pc' \in {to, "killed", "undefined"}
         /\ OnePlace(command', wpc, job, r)
         /\ SendKeeps(m, command, command', wpc, job, r)
<1>1. CASE command' = command
  BY <1>1 DEF Send, SendKeeps
<1>2. CASE w \in Workers /\ command' = [command EXCEPT ![w] = Append(command[w], m)]
  <2>1. command' \in Commands
    BY <1>2 DEF Commands
  <2>2. /\ OnePlace(command', wpc, job, r)
        /\ SendKeeps(m, command, command', wpc, job, r)
    <3>1. Sends(command, command', w, m)
      BY <1>2 DEF Commands, Sends
    <3> QED
      BY <1>2, <2>1, <3>1, SendJob
  <2>3. pc' \in {to, "killed", "undefined"}
    BY DEF Send
  <2> QED
    BY <2>1, <2>2, <2>3
<1> QED
  BY <1>1, <1>2 DEF Send

LEMMA FarmSchedule == ASSUME FarmInv, RliDaemonAssumption, Schedule PROVE FarmInv'
<1> USE DEF FarmInv, Typed
<1>1. /\ wpc' = wpc /\ job' = job /\ report' = report /\ out' = out /\ doneJob' = doneJob
      /\ misread' = misread /\ setup' = setup
  BY DEF Schedule, workers, output
<1>w. withoutJob' \in Nat
  BY DEF Schedule
<1>2. CASE i < WORKERS /\ next < setup.areas
  <2>1. Send(i, next, "schedule") /\ next' = next + 1 /\ i' = i + 1
    BY <1>2 DEF Schedule
  <2>2. next \in Areas /\ next # Term /\ next + 1 \in 0 .. setup.areas /\ next \in Int
    BY <1>2, NextIsArea DEF Areas
  <2>3. Gone(next) /\ out[next] = 0
    BY <2>2 DEF Ahead
  <2>4. /\ command' \in Commands /\ pc' \in {"schedule", "killed", "undefined"}
        /\ OnePlace(command', wpc, job, report)
        /\ \A a : a # next /\ Gone(a) => Nowhere(a, command', wpc, job, report)
    BY <2>1, <2>2, <2>3, Sent DEF Place, Gone, SendKeeps, MaySend, HandsHoldAreas
  <2>5. Typed'
    BY <1>1, <1>w, <2>1, <2>2, <2>4
  <2>6. Ahead'
    <3>1. \A a \in Areas : next + 1 <= a => next <= a /\ a # next
      BY <2>2 DEF Areas
    <3> QED
      BY <1>1, <2>1, <2>4, <3>1 DEF Ahead, Gone
  <2>7. ReportGone'
    <3>1. doneJob \in Report => doneJob.aid # next /\ doneJob.aid < next + 1
      BY <2>2 DEF Report, Areas, ReportGone
    <3> QED
      BY <1>1, <2>1, <2>4, <3>1 DEF ReportGone, Gone
  <2>8. OutGone'
    BY <1>1, <2>3, <2>4 DEF OutGone, Gone
  <2> QED
    BY <1>1, <2>4, <2>5, <2>6, <2>7, <2>8 DEF Place, AtMostOnce
<1>3. CASE ~(i < WORKERS /\ next < setup.areas)
  BY <1>1, <1>w, <1>3 DEF Schedule, Place, Ahead, ReportGone, OutGone, AtMostOnce, Gone
<1> QED
  BY <1>2, <1>3

LEMMA FarmBody == ASSUME FarmInv, RliDaemonAssumption, Body PROVE FarmInv'
<1>1. /\ pc = "body" /\ Receive /\ Output(doneJob') /\ next' = next + 1 /\ i' = i /\ withoutJob' = withoutJob
      /\ Send(doneJob'.pid, next, IF next + 1 < setup.areas THEN "body" ELSE "drain")
      /\ wpc' = wpc /\ job' = job /\ setup' = setup
  BY DEF Body, workers
<1>2. /\ report' \in Reports /\ doneJob' \in Report \cup {NoReport}
      /\ out' \in [Areas -> Nat] /\ misread' \in BOOLEAN
      /\ OnePlace(command, wpc, job, report')
      /\ \A a \in Areas : next <= a => Nowhere(a, command, wpc, job, report') /\ out'[a] = 0
      /\ doneJob' \in Report => /\ Nowhere(doneJob'.aid, command, wpc, job, report')
                               /\ doneJob'.aid < next
      /\ \A a \in Areas : out'[a] > 0 => Nowhere(a, command, wpc, job, report')
      /\ ~misread' => \A a \in Areas : out'[a] <= 1
  BY <1>1, Served
<1>3. next \in Areas /\ next # Term /\ next + 1 \in 0 .. setup.areas /\ next \in Int
  BY <1>1, NextIsArea DEF FarmInv, Typed, Areas
<1>4. command \in Commands /\ \A v \in Workers : wpc[v] = "compute" => job[v] \in Areas
  BY DEF FarmInv, Typed
<1>a. Nowhere(next, command, wpc, job, report')
  BY <1>2, <1>3
<1>5. /\ command' \in Commands
      /\ pc' \in {IF next + 1 < setup.areas THEN "body" ELSE "drain", "killed", "undefined"}
      /\ OnePlace(command', wpc, job, report')
      /\ \A a : a # next /\ Nowhere(a, command, wpc, job, report') => Nowhere(a, command', wpc, job, report')
  BY <1>1, <1>2, <1>3, <1>4, <1>a, Sent DEF SendKeeps, MaySend, HandsHoldAreas
<1>6. Typed'
  BY <1>1, <1>2, <1>3, <1>5 DEF FarmInv, Typed
<1>7. Ahead'
  <2>1. \A a \in Areas : next + 1 <= a => next <= a /\ a # next
    BY <1>3 DEF Areas
  <2> QED
    BY <1>1, <1>2, <1>5, <2>1 DEF Ahead, Gone
<1>8. ReportGone'
  <2>1. doneJob' \in Report => doneJob'.aid # next /\ doneJob'.aid < next + 1
    BY <1>2, <1>3 DEF Report, Areas
  <2> QED
    BY <1>1, <1>2, <1>5, <2>1 DEF ReportGone, Gone
<1>9. OutGone'
  <2>1. out'[next] = 0
    BY <1>2, <1>3
  <2>2. \A a \in Areas : out'[a] > 0 => a # next /\ Nowhere(a, command, wpc, job, report')
    BY <1>2, <2>1
  <2> QED
    BY <1>1, <1>5, <2>2 DEF OutGone, Gone
<1> QED
  BY <1>1, <1>2, <1>5, <1>6, <1>7, <1>8, <1>9 DEF FarmInv, Place, AtMostOnce

LEMMA FarmDrain == ASSUME FarmInv, RliDaemonAssumption, Drain PROVE FarmInv'
<1>1. /\ Receive /\ Output(doneJob') /\ next' = next /\ i > 0 /\ i' = i - 1 /\ withoutJob' = withoutJob
      /\ Send(doneJob'.pid, Term, "wait")
      /\ wpc' = wpc /\ job' = job /\ setup' = setup
  BY DEF Drain, workers
<1>2. /\ report' \in Reports /\ doneJob' \in Report \cup {NoReport}
      /\ out' \in [Areas -> Nat] /\ misread' \in BOOLEAN
      /\ OnePlace(command, wpc, job, report')
      /\ \A a \in Areas : next <= a => Nowhere(a, command, wpc, job, report') /\ out'[a] = 0
      /\ doneJob' \in Report => /\ Nowhere(doneJob'.aid, command, wpc, job, report')
                               /\ doneJob'.aid < next
      /\ \A a \in Areas : out'[a] > 0 => Nowhere(a, command, wpc, job, report')
      /\ ~misread' => \A a \in Areas : out'[a] <= 1
  BY <1>1, Served
<1>3. command \in Commands /\ \A v \in Workers : wpc[v] = "compute" => job[v] \in Areas
  BY DEF FarmInv, Typed
<1>4. /\ command' \in Commands /\ pc' \in {"wait", "killed", "undefined"}
      /\ OnePlace(command', wpc, job, report')
      /\ \A a : a # Term /\ Nowhere(a, command, wpc, job, report') => Nowhere(a, command', wpc, job, report')
  BY <1>1, <1>2, <1>3, Sent DEF SendKeeps, MaySend, HandsHoldAreas
<1>5. \A a \in Areas : a # Term
  BY DEF Areas, Term
<1>6. doneJob' \in Report => doneJob'.aid \in Areas
  BY DEF Report
<1>7. Typed'
  BY <1>1, <1>2, <1>4 DEF FarmInv, Typed
<1> QED
  BY <1>1, <1>2, <1>4, <1>5, <1>6, <1>7 DEF FarmInv, Ahead, ReportGone, OutGone, Gone, Place, AtMostOnce

LEMMA FarmEndIdle == ASSUME FarmInv, RliDaemonAssumption, EndIdle PROVE FarmInv'
<1>1. /\ Send(i, Term, "waitIdle") /\ i' = i + 1 /\ next' = next /\ withoutJob' = withoutJob
      /\ wpc' = wpc /\ job' = job /\ report' = report /\ doneJob' = doneJob
      /\ out' = out /\ misread' = misread /\ setup' = setup
  BY DEF EndIdle, workers, output
<1>2. /\ command' \in Commands /\ pc' \in {"waitIdle", "killed", "undefined"}
      /\ OnePlace(command', wpc, job, report)
      /\ \A a : a # Term /\ Gone(a) => Nowhere(a, command', wpc, job, report)
  BY <1>1, Sent DEF FarmInv, Typed, Place, Gone, SendKeeps, MaySend, HandsHoldAreas
<1>3. \A a \in Areas : a # Term
  BY DEF Areas, Term
<1>4. doneJob \in Report => doneJob.aid \in Areas
  BY DEF Report
<1>5. Typed'
  BY <1>1, <1>2 DEF FarmInv, Typed
<1> QED
  BY <1>1, <1>2, <1>3, <1>4, <1>5 DEF FarmInv, Ahead, ReportGone, OutGone, Gone, Place, AtMostOnce

LEMMA FarmTakeJob ==
  ASSUME FarmInv, NEW w \in Workers, TakeJob(w) PROVE FarmInv'
<1>1. /\ wpc[w] = "receive" /\ command[w] # <<>>
      /\ command' = [command EXCEPT ![w] = Tail(command[w])]
      /\ \/ /\ Head(command[w]) = Term
            /\ wpc' = [wpc EXCEPT ![w] = "ended"] /\ job' = job
         \/ /\ Head(command[w]) # Term
            /\ wpc' = [wpc EXCEPT ![w] = "compute"]
            /\ job' = [job EXCEPT ![w] = Head(command[w])]
      /\ report' = report /\ next' = next /\ i' = i /\ pc' = pc /\ doneJob' = doneJob
      /\ withoutJob' = withoutJob /\ out' = out /\ misread' = misread /\ setup' = setup
  BY DEF TakeJob, daemon, output
<1>2. /\ command' \in Commands /\ Head(command[w]) \in Areas \cup {Term}
      /\ OnePlace(command', wpc', job', report)
      /\ \A a : Gone(a) => Nowhere(a, command', wpc', job', report)
  <2>1. /\ command \in Commands /\ OnePlace(command, wpc, job, report)
        /\ wpc \in [Workers -> WPCs] /\ job \in [Workers -> Nat] /\ wpc[w] # "compute"
    BY <1>1 DEF FarmInv, Typed, Place
  <2>2. Takes(command, command', wpc, wpc', job, job', w)
    BY <1>1, <2>1 DEF Commands, Takes
  <2>3. /\ OnePlace(command', wpc', job', report)
        /\ TakeKeeps(command, command', wpc, wpc', job, job', report)
    BY <1>1, <2>1, <2>2, TakeCommand
  <2>4. command' \in Commands /\ Head(command[w]) \in Areas \cup {Term}
    <3>1. command[w] \in Seq(Areas \cup {Term})
      BY <2>1 DEF Commands
    <3>2. Head(command[w]) \in Areas \cup {Term} /\ Tail(command[w]) \in Seq(Areas \cup {Term})
      BY <1>1, <3>1
    <3> QED
      BY <1>1, <2>1, <3>2 DEF Commands
  <2> QED
    BY <2>3, <2>4 DEF Gone, TakeKeeps
<1>3. wpc' \in [Workers -> WPCs] /\ job' \in [Workers -> Nat]
  <2>1. CASE Head(command[w]) = Term
    BY <1>1, <2>1 DEF FarmInv, Typed, WPCs
  <2>2. CASE Head(command[w]) # Term
    <3>1. Head(command[w]) \in Nat
      BY <1>2, <2>2 DEF Areas
    <3> QED
      BY <1>1, <2>2, <3>1 DEF FarmInv, Typed, WPCs
  <2> QED
    BY <2>1, <2>2
<1>4. \A v \in Workers : wpc'[v] = "compute" => job'[v] \in Areas
  BY <1>1, <1>2 DEF FarmInv, Typed
<1>5. Typed'
  BY <1>1, <1>2, <1>3, <1>4 DEF FarmInv, Typed
<1> QED
  BY <1>1, <1>2, <1>5 DEF FarmInv, Ahead, ReportGone, OutGone, Gone, Place, AtMostOnce

LEMMA FarmAnswer ==
  ASSUME FarmInv, NEW w \in Workers, Answer(w) PROVE FarmInv'
<1> DEFINE e == [type |-> IF job[w] \in setup.bad THEN "ERROR" ELSE "DONE", aid |-> job[w], pid |-> w]
<1>1. /\ wpc[w] = "compute" /\ wpc' = [wpc EXCEPT ![w] = "receive"]
      /\ report' = Append(report, e)
      /\ command' = command /\ job' = job /\ next' = next /\ i' = i /\ pc' = pc
      /\ withoutJob' = withoutJob /\ doneJob' = doneJob /\ out' = out /\ misread' = misread
      /\ setup' = setup
  BY DEF Answer, daemon, output
<1>2. e \in Report /\ e.aid = job[w]
  BY <1>1 DEF FarmInv, Typed, Report
<1> HIDE DEF e
<1>3. /\ OnePlace(command, wpc', job, report')
      /\ \A a : Gone(a) => Nowhere(a, command, wpc', job, report')
  BY <1>1, <1>2, PutReport DEF FarmInv, Typed, Place, Gone
<1>4. report' \in Reports
  BY <1>1, <1>2 DEF FarmInv, Typed, Reports
<1>5. wpc' \in [Workers -> WPCs] /\ \A v \in Workers : wpc'[v] = "compute" => job[v] \in Areas
  BY <1>1 DEF FarmInv, Typed, WPCs
<1>6. Typed'
  BY <1>1, <1>4, <1>5 DEF FarmInv, Typed
<1> QED
  BY <1>1, <1>3, <1>6 DEF FarmInv, Ahead, ReportGone, OutGone, Gone, Place, AtMostOnce

(* Steps that move no area: the workers' hands lose one at most.            *)
LEMMA FarmElse ==
  ASSUME FarmInv, wpc' \in [Workers -> WPCs],
         \A v \in Workers : wpc'[v] = "compute" => wpc[v] = "compute",
         command' = command /\ job' = job /\ report' = report /\ next' = next
           /\ doneJob' = doneJob /\ out' = out /\ misread' = misread /\ setup' = setup,
         i' \in Nat, withoutJob' \in Nat, pc' = "body" => pc = "body"
  PROVE  FarmInv'
<1>1. Typed'
  BY DEF FarmInv, Typed
<1>2. \A a : Gone(a) => Nowhere(a, command', wpc', job', report')
  BY DEF Gone, Nowhere
<1>3. Place'
  BY DEF FarmInv, Place, OnePlace, PipesOnce, HandsOnce, ReportsOnce, PipesOrHands, HandsOrReports,
     PipesOrReports
<1> QED
  BY <1>1, <1>2, <1>3 DEF FarmInv, Ahead, ReportGone, OutGone, Gone, AtMostOnce

LEMMA FarmStep == ASSUME FarmInv, RliDaemonAssumption, [Next]_vars PROVE FarmInv'
<1>1. CASE UNCHANGED vars
  BY <1>1, FarmElse DEF vars, FarmInv, Typed
<1>2. CASE Fork \/ OpenCommand \/ OpenReport \/ Drained \/ Wait \/ Return
  <2>1. wpc' \in [Workers -> WPCs] /\ \A v \in Workers : wpc'[v] = "compute" => wpc[v] = "compute"
    BY <1>2 DEF Fork, OpenCommand, OpenReport, Drained, Wait, Return, workers, FarmInv, Typed, WPCs
  <2>2. /\ command' = command /\ job' = job /\ report' = report /\ next' = next
        /\ doneJob' = doneJob /\ out' = out /\ misread' = misread /\ setup' = setup
    BY <1>2 DEF Fork, OpenCommand, OpenReport, Drained, Wait, Return, workers, output
  <2>3. i' \in Nat /\ withoutJob' = withoutJob
    BY <1>2 DEF Fork, OpenCommand, OpenReport, Drained, Wait, Return, FarmInv, Typed
  <2>4. pc' # "body"
    BY <1>2 DEF Fork, OpenCommand, OpenReport, Drained, Wait, Return
  <2> QED
    BY <2>1, <2>2, <2>3, <2>4, FarmElse DEF FarmInv, Typed
<1>3. ASSUME NEW w \in Workers, StartWorker(w) \/ StartFails(w) \/ WantReport(w) \/ Die(w)
      PROVE  FarmInv'
  <2>1. wpc' \in [Workers -> WPCs] /\ \A v \in Workers : wpc'[v] = "compute" => wpc[v] = "compute"
    BY <1>3 DEF StartWorker, StartFails, WantReport, Die, FarmInv, Typed, WPCs
  <2>2. /\ command' = command /\ job' = job /\ report' = report /\ next' = next
        /\ doneJob' = doneJob /\ out' = out /\ misread' = misread /\ i' = i /\ pc' = pc /\ withoutJob' = withoutJob
        /\ setup' = setup
    BY <1>3 DEF StartWorker, StartFails, WantReport, Die, daemon, output
  <2> QED
    BY <2>1, <2>2, FarmElse DEF FarmInv, Typed
<1>4. CASE Schedule
  BY <1>4, FarmSchedule
<1>5. CASE Body
  BY <1>5, FarmBody
<1>6. CASE Drain
  BY <1>6, FarmDrain
<1>7. CASE EndIdle
  BY <1>7, FarmEndIdle
<1>8. ASSUME NEW w \in Workers, TakeJob(w) PROVE FarmInv'
  BY <1>8, FarmTakeJob
<1>9. ASSUME NEW w \in Workers, Answer(w) PROVE FarmInv'
  BY <1>9, FarmAnswer
<1> QED
  BY <1>1, <1>2, <1>3, <1>4, <1>5, <1>6, <1>7, <1>8, <1>9 DEF Next, Daemon, Worker

LEMMA FarmAlways == Spec => []FarmInv
<1>1. ASSUME Init PROVE FarmInv
  BY <1>1, FarmInit, RliDaemonAssumption
<1>2. ASSUME FarmInv, [Next]_vars PROVE FarmInv'
  BY <1>2, FarmStep, RliDaemonAssumption
<1> QED
  BY <1>1, <1>2, PTL DEF Spec

(* daemon.c:166-258: as long as the daemon reads nothing but reports, no    *)
(* area has two results in the output, whichever workers die.               *)
THEOREM RliAtMostOnce == Spec => []AtMostOnce
<1>1. FarmInv => AtMostOnce
  BY DEF FarmInv
<1> QED
  BY <1>1, FarmAlways, PTL

(* An area with a result in the output is never again in a pipe or in the   *)
(* hands of a worker, even if the daemon took a report that was not there.  *)
THEOREM RliOutIsFinal == Spec => []OutIsFinal
<1>1. FarmInv => OutIsFinal
  BY DEF FarmInv, OutGone, OutIsFinal, Gone, Nowhere, Free, Computes
<1> QED
  BY <1>1, FarmAlways, PTL

-----------------------------------------------------------------------------
(* Worker w has no job: nothing but its end in its pipe, nothing in its     *)
(* hands, and no report of it (commands c, places p, reports r).            *)
Jobless(w, c, p, r) ==
    /\ \A k \in DOMAIN c[w] : c[w][k] = Term
    /\ p[w] # "compute"
    /\ \A k \in DOMAIN r : r[k].pid # w

(* Worker w has one job at most, in one of the three.                       *)
OneJob(w, c, p, r) ==
    /\ p[w] = "compute" => \A k \in DOMAIN c[w] : c[w][k] = Term
    /\ \A k \in DOMAIN r : r[k].pid = w =>
          p[w] # "compute" /\ \A l \in DOMAIN c[w] : c[w][l] = Term
    /\ \A k, l \in DOMAIN r : r[k].pid = w /\ r[l].pid = w => k = l
    /\ \A k, l \in DOMAIN c[w] : c[w][k] # Term /\ c[w][l] # Term => k = l

(* The workers that have been served once: only they have written reports.  *)
Met == {"receive", "compute", "ended"}
Early == pc \in {"fork", "openCommand", "openReport"}

JobsApart  == \A w \in Workers : OneJob(w, command, wpc, report)
ReportsMet == \A k \in DOMAIN report : wpc[report[k].pid] \in Met
LastMet    == doneJob \in Report => wpc[doneJob.pid] \in Met
NoneEarly  == Early => doneJob \notin Report /\ \A w \in Workers : Jobless(w, command, wpc, report)
RestJobless == pc = "schedule" => \A w \in Workers : i <= w => Jobless(w, command, wpc, report)
JobInv == JobsApart /\ ReportsMet /\ LastMet /\ NoneEarly /\ RestJobless

(* Worker w may be sent m. *)
Spare(m, w, c, p, r) == m = Term \/ Jobless(w, c, p, r)

(* A report leaves its worker without a job, and takes none from another.   *)
LEMMA ReadReport ==
  ASSUME NEW c, NEW p, NEW r \in Reports, r # <<>>,
         \A w \in Workers : OneJob(w, c, p, r),
         \A k \in DOMAIN r : p[r[k].pid] \in Met
  PROVE  /\ \A w \in Workers : OneJob(w, c, p, Tail(r))
         /\ \A k \in DOMAIN Tail(r) : p[Tail(r)[k].pid] \in Met
         /\ Head(r) \in Report /\ Head(r).pid \in Workers /\ p[Head(r).pid] \in Met
         /\ Jobless(Head(r).pid, c, p, Tail(r))
<1>1. /\ Head(r) \in Report /\ Head(r) = r[1] /\ 1 \in DOMAIN r
      /\ \A k \in DOMAIN Tail(r) : k \in Nat /\ k >= 1 /\ k + 1 \in DOMAIN r /\ Tail(r)[k] = r[k + 1]
  BY DEF Reports
<1>2. Head(r).pid \in Workers
  BY <1>1 DEF Report
<1>3. ASSUME NEW w \in Workers PROVE OneJob(w, c, p, Tail(r))
  <2>1. OneJob(w, c, p, r)
    OBVIOUS
  <2>2. \A k, l \in DOMAIN Tail(r) : Tail(r)[k].pid = w /\ Tail(r)[l].pid = w => k = l
    <3> SUFFICES ASSUME NEW k \in DOMAIN Tail(r), NEW l \in DOMAIN Tail(r),
                        Tail(r)[k].pid = w, Tail(r)[l].pid = w
                 PROVE  k = l
      OBVIOUS
    <3>1. k \in Nat /\ l \in Nat /\ k + 1 = l + 1
      BY <1>1, <2>1 DEF OneJob
    <3> QED
      BY <3>1
  <2> QED
    BY <1>1, <2>1, <2>2 DEF OneJob
<1>4. Jobless(Head(r).pid, c, p, Tail(r))
  <2>1. OneJob(Head(r).pid, c, p, r)
    BY <1>2
  <2>2. ASSUME NEW k \in DOMAIN Tail(r), Tail(r)[k].pid = Head(r).pid PROVE FALSE
    <3>1. k + 1 = 1 /\ k \in Nat /\ k >= 1
      BY <1>1, <2>1, <2>2 DEF OneJob
    <3> QED
      BY <3>1
  <2> QED
    BY <1>1, <2>1, <2>2 DEF OneJob, Jobless
<1> QED
  BY <1>1, <1>2, <1>3, <1>4

LEMMA ReportPids ==
  ASSUME FarmInv
  PROVE  (\A e \in Report : e.pid \in Workers) /\ \A k \in DOMAIN report : report[k].pid \in Workers
<1>1. \A e \in Report : e.pid \in Workers
  BY DEF Report
<1>2. \A k \in DOMAIN report : report[k] \in Report
  BY DEF FarmInv, Typed, Reports
<1> QED
  BY <1>1, <1>2

(* A message to a worker without a job, or its end to any, gives no second. *)
LEMMA SendOneJob ==
  ASSUME NEW c \in Commands, NEW p, NEW r, NEW w \in Workers, NEW m \in Areas \cup {Term},
         NEW d, Sends(c, d, w, m),
         \A v \in Workers : OneJob(v, c, p, r), Spare(m, w, c, p, r)
  PROVE  /\ \A v \in Workers : OneJob(v, d, p, r)
         /\ \A v \in Workers : (v # w \/ m = Term) /\ Jobless(v, c, p, r) => Jobless(v, d, p, r)
<1>1. /\ c[w] \in Seq(Areas \cup {Term}) /\ d[w] = Append(c[w], m)
      /\ \A v \in Workers : v # w => d[v] = c[v]
  BY DEF Commands, Sends
<1>2. /\ DOMAIN d[w] = DOMAIN c[w] \cup {Len(c[w]) + 1} /\ Len(c[w]) + 1 \notin DOMAIN c[w]
      /\ d[w][Len(c[w]) + 1] = m
      /\ \A k \in DOMAIN c[w] : d[w][k] = c[w][k]
  BY <1>1
<1>3. OneJob(w, d, p, r)
  <2>1. CASE m = Term
    BY <1>2, <2>1 DEF OneJob
  <2>2. CASE Jobless(w, c, p, r)
    BY <1>2, <2>2 DEF OneJob, Jobless
  <2> QED
    BY <2>1, <2>2 DEF Spare
<1>4. \A v \in Workers : v # w => OneJob(v, d, p, r)
  BY <1>1 DEF OneJob
<1>5. m = Term /\ Jobless(w, c, p, r) => Jobless(w, d, p, r)
  BY <1>2 DEF Jobless
<1>6. \A v \in Workers : v # w /\ Jobless(v, c, p, r) => Jobless(v, d, p, r)
  BY <1>1 DEF Jobless
<1> QED
  BY <1>3, <1>4, <1>5, <1>6

LEMMA JobInit == ASSUME Init PROVE JobInv
<1>1. /\ \A w \in Workers : wpc[w] # "compute" /\ command[w] = <<>>
      /\ report = <<>> /\ doneJob \notin Report /\ pc = "fork"
  BY NoReportIsNone DEF Init
<1>2. \A w \in Workers : OneJob(w, command, wpc, report) /\ Jobless(w, command, wpc, report)
  BY <1>1 DEF OneJob, Jobless
<1> QED
  BY <1>1, <1>2 DEF JobInv, JobsApart, ReportsMet, LastMet, NoneEarly, RestJobless, Early

LEMMA JobSchedule == ASSUME FarmInv, JobInv, RliDaemonAssumption, Schedule PROVE JobInv'
<1> USE DEF JobInv
<1>1. /\ pc = "schedule" /\ wpc' = wpc /\ report' = report /\ doneJob' = doneJob /\ i \in Nat
      /\ setup \in AnySetup /\ next \in 0 .. setup.areas /\ command \in Commands
  BY DEF Schedule, workers, FarmInv, Typed
<1>2. ReportsMet' /\ LastMet'
  BY <1>1 DEF ReportsMet, LastMet
<1>3. CASE i < WORKERS /\ next < setup.areas
  <2>1. Send(i, next, "schedule") /\ i' = i + 1
    BY <1>3 DEF Schedule
  <2>2. i \in Workers /\ next \in Areas
    BY <1>1, <1>3, NextIsArea, RliDaemonAssumption DEF Workers
  <2>3. Jobless(i, command, wpc, report)
    BY <1>1, <2>2 DEF RestJobless, Workers
  <2>4. pc' \in {"schedule", "killed", "undefined"}
    BY <2>1 DEF Send
  <2>5. \A v \in Workers : i + 1 <= v => i <= v /\ v # i
    BY <1>1 DEF Workers
  <2>6. CASE command' = command
    BY <1>1, <1>2, <2>1, <2>4, <2>5, <2>6 DEF JobsApart, NoneEarly, RestJobless, Early
  <2>7. CASE command' = [command EXCEPT ![i] = Append(@, next)]
    <3>0. Sends(command, command', i, next)
      BY <1>1, <2>2, <2>7 DEF Sends, Commands
    <3>1. /\ \A v \in Workers : OneJob(v, command', wpc, report)
          /\ \A v \in Workers : v # i /\ Jobless(v, command, wpc, report) => Jobless(v, command', wpc, report)
      BY <1>1, <2>2, <2>3, <3>0, SendOneJob DEF JobsApart, Spare
    <3> QED
      BY <1>1, <1>2, <2>1, <2>4, <2>5, <3>1 DEF JobsApart, NoneEarly, RestJobless, Early
  <2> QED
    BY <2>1, <2>6, <2>7 DEF Send
<1>4. CASE ~(i < WORKERS /\ next < setup.areas)
  <2>1. command' = command /\ pc' \in {"body", "drain"}
    BY <1>4 DEF Schedule
  <2> QED
    BY <1>1, <1>2, <2>1 DEF JobsApart, NoneEarly, RestJobless, Early
<1> QED
  BY <1>3, <1>4

(* Reading the report pipe, and what is sent to the worker it names.        *)
LEMMA JobServe ==
  ASSUME FarmInv, JobInv, RliDaemonAssumption, Receive, NEW m \in Areas \cup {Term},
         NEW to \in {"body", "drain", "wait"}, Send(doneJob'.pid, m, to), wpc' = wpc
  PROVE  JobInv'
<1> USE DEF JobInv
<1>1. command \in Commands /\ report \in Reports /\ doneJob \in Report \cup {NoReport}
  BY DEF FarmInv, Typed
<1>2. pc' \in {"body", "drain", "wait", "killed", "undefined"}
  BY DEF Send
<1>3. NoneEarly' /\ RestJobless'
  BY <1>2 DEF NoneEarly, RestJobless, Early
<1>4. CASE report # <<>> /\ doneJob' = Head(report) /\ report' = Tail(report)
  <2>1. /\ \A w \in Workers : OneJob(w, command, wpc, report')
        /\ \A k \in DOMAIN report' : wpc[report'[k].pid] \in Met
        /\ doneJob'.pid \in Workers /\ wpc[doneJob'.pid] \in Met
        /\ Jobless(doneJob'.pid, command, wpc, report')
    BY <1>1, <1>4, ReadReport DEF JobsApart, ReportsMet
  <2>2. JobsApart'
    <3>1. CASE command' = command
      BY <2>1, <3>1 DEF JobsApart
    <3>2. CASE command' = [command EXCEPT ![doneJob'.pid] = Append(@, m)]
      <4>1. Sends(command, command', doneJob'.pid, m)
        BY <1>1, <2>1, <3>2 DEF Sends, Commands
      <4>2. \A v \in Workers : OneJob(v, command', wpc, report')
        BY <1>1, <2>1, <4>1, SendOneJob DEF Spare
      <4> QED
        BY <4>2 DEF JobsApart
    <3> QED
      BY <3>1, <3>2 DEF Send
  <2> QED
    BY <1>3, <2>1, <2>2 DEF ReportsMet, LastMet
<1>5. CASE report = <<>> /\ Writing = {} /\ doneJob' = doneJob /\ report' = report
  <2>1. command' = command
    <3>1. CASE doneJob \in Report
      <4>1. doneJob.pid \in Workers /\ wpc[doneJob.pid] \in Met
        BY <3>1 DEF LastMet, Report
      <4>2. wpc[doneJob.pid] = "ended"
        BY <1>5, <4>1 DEF Writing, Met
      <4>3. doneJob.pid \notin Reading
        BY <4>2 DEF Reading
      <4> QED
        BY <1>5, <4>3 DEF Send
    <3>2. CASE doneJob = NoReport
      BY <1>5, <3>2, NoReportIsNone DEF Send
    <3> QED
      BY <1>1, <3>1, <3>2
  <2> QED
    BY <1>3, <1>5, <2>1 DEF JobsApart, ReportsMet, LastMet
<1> QED
  BY <1>4, <1>5 DEF Receive

LEMMA JobEndIdle == ASSUME FarmInv, JobInv, EndIdle PROVE JobInv'
<1> USE DEF JobInv
<1>1. /\ Send(i, Term, "waitIdle") /\ wpc' = wpc /\ report' = report /\ doneJob' = doneJob
      /\ command \in Commands
  BY DEF EndIdle, workers, FarmInv, Typed
<1>2. pc' \in {"waitIdle", "killed", "undefined"}
  BY <1>1 DEF Send
<1>3. JobsApart'
  <2>1. CASE command' = command
    BY <1>1, <2>1 DEF JobsApart
  <2>2. CASE i \in Workers /\ command' = [command EXCEPT ![i] = Append(@, Term)]
    <3>1. Sends(command, command', i, Term)
      BY <1>1, <2>2 DEF Sends, Commands
    <3>2. Spare(Term, i, command, wpc, report) /\ Term \in Areas \cup {Term}
      BY DEF Spare
    <3>3. command \in Commands /\ i \in Workers /\ \A v \in Workers : OneJob(v, command, wpc, report)
      BY <1>1, <2>2 DEF JobsApart
    <3>4. \A v \in Workers : OneJob(v, command', wpc, report)
      BY <3>1, <3>2, <3>3, SendOneJob
    <3> QED
      BY <1>1, <3>4 DEF JobsApart
  <2> QED
    BY <1>1, <2>1, <2>2 DEF Send
<1> QED
  BY <1>1, <1>2, <1>3 DEF ReportsMet, LastMet, NoneEarly, RestJobless, Early

LEMMA JobTakeJob == ASSUME FarmInv, JobInv, NEW w \in Workers, TakeJob(w) PROVE JobInv'
<1> USE DEF JobInv
<1>1. /\ wpc[w] = "receive" /\ command[w] # <<>>
      /\ command \in Commands /\ wpc \in [Workers -> WPCs]
      /\ command' = [command EXCEPT ![w] = Tail(command[w])]
      /\ report' = report /\ i' = i /\ pc' = pc /\ doneJob' = doneJob
      /\ \/ Head(command[w]) = Term /\ wpc' = [wpc EXCEPT ![w] = "ended"]
         \/ Head(command[w]) # Term /\ wpc' = [wpc EXCEPT ![w] = "compute"]
  BY DEF TakeJob, daemon, FarmInv, Typed
<1>2. /\ 1 \in DOMAIN command[w] /\ Head(command[w]) = command[w][1]
      /\ command'[w] = Tail(command[w])
      /\ \A k \in DOMAIN command'[w] :
            k \in Nat /\ k >= 1 /\ k + 1 \in DOMAIN command[w] /\ command'[w][k] = command[w][k + 1]
      /\ \A v \in Workers : v # w => command'[v] = command[v] /\ wpc'[v] = wpc[v]
  BY <1>1 DEF Commands
<1>3. OneJob(w, command, wpc, report)
  BY DEF JobsApart
<1>4. /\ wpc'[w] \in Met
      /\ Jobless(w, command, wpc, report) => Jobless(w, command', wpc', report)
  BY <1>1, <1>2 DEF Jobless, Met
<1>5. OneJob(w, command', wpc', report)
  <2>1. CASE Head(command[w]) = Term
    <3>1. wpc'[w] # "compute"
      BY <1>1, <2>1
    <3>2. \A k, l \in DOMAIN command'[w] : command'[w][k] # Term /\ command'[w][l] # Term => k = l
      <4> SUFFICES ASSUME NEW k \in DOMAIN command'[w], NEW l \in DOMAIN command'[w],
                          command'[w][k] # Term, command'[w][l] # Term
                   PROVE  k = l
        OBVIOUS
      <4>1. k \in Nat /\ l \in Nat /\ k + 1 = l + 1
        BY <1>2, <1>3 DEF OneJob
      <4> QED
        BY <4>1
    <3> QED
      BY <1>2, <1>3, <3>1, <3>2 DEF OneJob
  <2>2. CASE Head(command[w]) # Term
    <3>1. ASSUME NEW k \in DOMAIN command'[w], command'[w][k] # Term PROVE FALSE
      <4>1. k + 1 = 1 /\ k \in Nat /\ k >= 1
        BY <1>2, <1>3, <2>2, <3>1 DEF OneJob
      <4> QED
        BY <4>1
    <3>2. \A k \in DOMAIN report : report[k].pid # w
      BY <1>2, <1>3, <2>2 DEF OneJob
    <3> QED
      BY <1>3, <3>1, <3>2 DEF OneJob
  <2> QED
    BY <2>1, <2>2
<1>6. JobsApart'
  BY <1>1, <1>2, <1>5 DEF JobsApart, OneJob
<1>7. /\ \A v \in Workers : Jobless(v, command, wpc, report) => Jobless(v, command', wpc', report)
      /\ \A v \in Workers : wpc[v] \in Met => wpc'[v] \in Met
  BY <1>2, <1>4 DEF Jobless
<1>8. ReportsMet' /\ LastMet'
  BY <1>1, <1>7, ReportPids DEF ReportsMet, LastMet
<1> QED
  BY <1>1, <1>6, <1>7, <1>8 DEF NoneEarly, RestJobless, Early

LEMMA JobAnswer == ASSUME FarmInv, JobInv, NEW w \in Workers, Answer(w) PROVE JobInv'
<1> USE DEF JobInv
<1>1. PICK e : e.pid = w /\ report' = Append(report, e)
  BY DEF Answer
<1>2. /\ wpc[w] = "compute" /\ wpc' = [wpc EXCEPT ![w] = "receive"]
      /\ wpc \in [Workers -> WPCs] /\ report \in Seq(Report)
      /\ command' = command /\ i' = i /\ pc' = pc /\ doneJob' = doneJob
  BY DEF Answer, daemon, FarmInv, Typed, Reports
<1>3. /\ DOMAIN report' = DOMAIN report \cup {Len(report) + 1} /\ Len(report) + 1 \notin DOMAIN report
      /\ report'[Len(report) + 1] = e
      /\ \A k \in DOMAIN report : report'[k] = report[k]
      /\ wpc'[w] = "receive" /\ \A v \in Workers : v # w => wpc'[v] = wpc[v]
  BY <1>1, <1>2
<1>4. OneJob(w, command, wpc, report)
  BY DEF JobsApart
<1>5. OneJob(w, command, wpc', report')
  BY <1>1, <1>2, <1>3, <1>4 DEF OneJob
<1>6. /\ \A v \in Workers : v # w => OneJob(v, command, wpc', report')
      /\ \A v \in Workers : v # w /\ Jobless(v, command, wpc, report) => Jobless(v, command, wpc', report')
  BY <1>1, <1>3 DEF OneJob, Jobless, JobsApart
<1>7. ~Jobless(w, command, wpc, report)
  BY <1>2 DEF Jobless
<1>8. ReportsMet' /\ LastMet'
  <2>1. \A v \in Workers : wpc[v] \in Met => wpc'[v] \in Met
    BY <1>3 DEF Met
  <2>2. \A k \in DOMAIN report' : wpc'[report'[k].pid] \in Met
    BY <1>1, <1>3, <2>1, ReportPids DEF ReportsMet, Met
  <2> QED
    BY <1>2, <2>1, <2>2, ReportPids DEF ReportsMet, LastMet
<1>9. \A v \in Workers : OneJob(v, command', wpc', report')
  BY <1>2, <1>5, <1>6
<1>10. \A v \in Workers : Jobless(v, command, wpc, report) => Jobless(v, command', wpc', report')
  BY <1>2, <1>6, <1>7
<1> QED
  BY <1>2, <1>8, <1>9, <1>10 DEF JobsApart, NoneEarly, RestJobless, Early

(* Steps that give no job: a worker may lose what it computes.              *)
LEMMA JobElse ==
  ASSUME FarmInv, JobInv, command' = command /\ report' = report /\ doneJob' = doneJob,
         \A v \in Workers : wpc'[v] = "compute" => wpc[v] = "compute",
         \A v \in Workers : wpc[v] \in Met => wpc'[v] \in Met,
         Early' => Early, pc' = "schedule" => Early \/ (pc = "schedule" /\ i' = i)
  PROVE  JobInv'
<1>1. /\ \A v \in Workers : OneJob(v, command, wpc, report) => OneJob(v, command', wpc', report')
      /\ \A v \in Workers : Jobless(v, command, wpc, report) => Jobless(v, command', wpc', report')
  BY DEF OneJob, Jobless
<1> QED
  BY <1>1, ReportPids DEF JobInv, JobsApart, ReportsMet, LastMet, NoneEarly, RestJobless

LEMMA JobStep == ASSUME FarmInv, JobInv, RliDaemonAssumption, [Next]_vars PROVE JobInv'
<1>0. wpc \in [Workers -> WPCs]
  BY DEF FarmInv, Typed
<1>1. CASE UNCHANGED vars
  BY <1>1, JobElse DEF vars, Early
<1>2. CASE Fork
  <2>1. /\ command' = command /\ report' = report /\ doneJob' = doneJob
        /\ pc = "fork" /\ pc' = "openCommand" /\ wpc' = [wpc EXCEPT ![i] = "start"]
    BY <1>2 DEF Fork
  <2>2. doneJob \notin Report /\ \A w \in Workers : Jobless(w, command, wpc, report)
    BY <2>1 DEF JobInv, NoneEarly, Early
  <2>3. \A v \in Workers : wpc'[v] = "compute" => wpc[v] = "compute"
    BY <1>0, <2>1
  <2>4. \A v \in Workers : Jobless(v, command', wpc', report') /\ OneJob(v, command', wpc', report')
    BY <2>1, <2>2, <2>3 DEF Jobless, OneJob
  <2>5. ReportsMet'
    BY <2>1, <2>2, ReportPids DEF ReportsMet, Jobless
  <2> QED
    BY <2>1, <2>2, <2>4, <2>5 DEF JobInv, JobsApart, LastMet, NoneEarly, RestJobless
<1>3. CASE OpenCommand \/ OpenReport \/ Drained \/ Wait \/ Return
  <2>1. /\ \A v \in Workers : wpc'[v] = "compute" => wpc[v] = "compute"
        /\ \A v \in Workers : wpc[v] \in Met => wpc'[v] \in Met
    BY <1>0, <1>3 DEF OpenCommand, OpenReport, Drained, Wait, Return, workers, Met
  <2>2. command' = command /\ report' = report /\ doneJob' = doneJob
    BY <1>3 DEF OpenCommand, OpenReport, Drained, Wait, Return
  <2>3. (Early' => Early) /\ (pc' = "schedule" => Early \/ (pc = "schedule" /\ i' = i))
    BY <1>3 DEF OpenCommand, OpenReport, Drained, Wait, Return, Early
  <2> QED
    BY <2>1, <2>2, <2>3, JobElse
<1>4. ASSUME NEW w \in Workers, StartWorker(w) \/ StartFails(w) \/ WantReport(w) \/ Die(w)
      PROVE  JobInv'
  <2>1. /\ \A v \in Workers : wpc'[v] = "compute" => wpc[v] = "compute"
        /\ \A v \in Workers : wpc[v] \in Met => wpc'[v] \in Met
    BY <1>0, <1>4 DEF StartWorker, StartFails, WantReport, Die, Met
  <2>2. command' = command /\ report' = report /\ doneJob' = doneJob /\ pc' = pc /\ i' = i
    BY <1>4 DEF StartWorker, StartFails, WantReport, Die, daemon
  <2> QED
    BY <2>1, <2>2, JobElse DEF Early
<1>5. CASE Schedule
  BY <1>5, JobSchedule
<1>6. CASE Body
  <2>1. /\ Receive /\ Send(doneJob'.pid, next, IF next + 1 < setup.areas THEN "body" ELSE "drain")
        /\ wpc' = wpc /\ pc = "body"
    BY <1>6 DEF Body, workers
  <2>2. next \in Areas
    BY <2>1, NextIsArea DEF FarmInv, Typed
  <2> QED
    BY <2>1, <2>2, JobServe
<1>7. CASE Drain
  BY <1>7, JobServe DEF Drain, workers
<1>8. CASE EndIdle
  BY <1>8, JobEndIdle
<1>9. ASSUME NEW w \in Workers, TakeJob(w) PROVE JobInv'
  BY <1>9, JobTakeJob
<1>10. ASSUME NEW w \in Workers, Answer(w) PROVE JobInv'
  BY <1>10, JobAnswer
<1> QED
  BY <1>1, <1>2, <1>3, <1>4, <1>5, <1>6, <1>7, <1>8, <1>9, <1>10 DEF Next, Daemon, Worker

(* daemon.c:166-240: a worker has one job at a time, in its pipe, in its    *)
(* hands or in its report, even after the daemon took a report that was not *)
(* there.                                                                   *)
THEOREM RliOneJobEach == Spec => []OneJobEach
<1>1. ASSUME Init PROVE FarmInv /\ JobInv
  BY <1>1, FarmInit, JobInit, RliDaemonAssumption
<1>2. ASSUME FarmInv /\ JobInv, [Next]_vars PROVE (FarmInv /\ JobInv)'
  BY <1>2, FarmStep, JobStep, RliDaemonAssumption
<1>3. FarmInv /\ JobInv => OneJobEach
  BY DEF JobInv, JobsApart, OneJob, OneJobEach, Computes, Waits, Answered
<1> QED
  BY <1>1, <1>2, <1>3, PTL DEF Spec

-----------------------------------------------------------------------------
(* A set of natural numbers has a least one.                                *)
LEMMA Least ==
  ASSUME NEW T, T \subseteq Nat, T # {} PROVE \E x \in T : \A y \in T : x <= y
<1> DEFINE R == {ss \in Nat \X Nat : ss[1] < ss[2]}
<1>1. IsWellFoundedOn(R, Nat)
  BY NatLessThanWellFounded DEF OpToRel
<1> HIDE DEF R
<1>2. PICK x \in T : \A y \in T : ~(<<y, x>> \in R)
  BY <1>1, WFMin
<1>3. \A y \in T : ~(y < x)
  BY <1>2 DEF R
<1>4. \A y \in T : x <= y
  BY <1>3
<1> QED
  BY <1>4

(* write_raster: the cells that the file holds, and the buffer after them,  *)
(* up to cell n.                                                            *)
InFile(a) == \E b \in WrittenCells : a <= b
ReadUpTo(g, n) ==
    g = [a \in 0 .. n - 1 |-> IF InFile(a) THEN file[a]
                              ELSE IF a < Cols THEN Unset ELSE g[a - Cols]]

(* What Read is defined by has a solution, one row after the other.         *)
LEMMA ReadIs == ASSUME RliDaemonAssumption PROVE ReadUpTo(Read, NAreas)
<1>1. NAreas \in Nat /\ Cols \in Nat /\ Cols >= 1
  BY DEF RliDaemonAssumption
<1>2. ASSUME NEW n \in Nat PROVE \E g : ReadUpTo(g, n)
  <2> DEFINE T == {m \in Nat : ~\E g : ReadUpTo(g, m)}
  <2>1. SUFFICES ASSUME T # {} PROVE FALSE
    OBVIOUS
  <2>2. PICK x \in T : \A y \in T : x <= y
    BY <2>1, Least
  <2>3. CASE x = 0
    <3> DEFINE g == [a \in {} |-> 0]
    <3>1. 0 .. 0 - 1 = {}
      OBVIOUS
    <3>2. ReadUpTo(g, 0)
      BY <3>1 DEF ReadUpTo
    <3> QED
      BY <2>3, <3>2
  <2>4. CASE x # 0
    <3>1. x - 1 \in Nat /\ x - 1 \notin T
      BY <2>2, <2>4
    <3>2. PICK g : ReadUpTo(g, x - 1)
      BY <3>1
    <3> DEFINE h == [a \in 0 .. x - 1 |-> IF InFile(a) THEN file[a]
                                          ELSE IF a < Cols THEN Unset ELSE g[a - Cols]]
    <3>3. \A a \in 0 .. x - 1 - 1 : h[a] = g[a]
      BY <3>1, <3>2 DEF ReadUpTo
    <3>4. \A a \in 0 .. x - 1 : ~(a < Cols) => a - Cols \in 0 .. x - 1 - 1
      BY <1>1, <3>1
    <3>5. \A a \in 0 .. x - 1 : ~(a < Cols) => h[a - Cols] = g[a - Cols]
      BY <3>3, <3>4
    <3>6. h = [a \in 0 .. x - 1 |-> IF InFile(a) THEN file[a]
                                    ELSE IF a < Cols THEN Unset ELSE h[a - Cols]]
      BY <3>5
    <3> HIDE DEF h
    <3>7. ReadUpTo(h, x)
      BY <3>6 DEF ReadUpTo
    <3> QED
      BY <3>7
  <2> QED
    BY <2>3, <2>4
<1>3. Read = CHOOSE g : ReadUpTo(g, NAreas)
  BY DEF Read, ReadUpTo, InFile, Areas
<1> QED
  BY <1>1, <1>2, <1>3

(* Every cell of the new raster is one of the file, or was never set.       *)
LEMMA ReadIsCells ==
  ASSUME RliDaemonAssumption, file \in [Areas -> Cells] PROVE Read \in [Areas -> Cells]
<1>1. NAreas \in Nat /\ Cols \in Nat /\ Cols >= 1 /\ Areas \subseteq Nat /\ Unset \in Cells
  BY DEF RliDaemonAssumption, Areas, Cells
<1>2. /\ DOMAIN Read = Areas /\ Read = [a \in Areas |-> Read[a]]
      /\ \A a \in Areas : Read[a] = IF InFile(a) THEN file[a]
                                    ELSE IF a < Cols THEN Unset ELSE Read[a - Cols]
  BY ReadIs DEF ReadUpTo, Areas
<1> DEFINE T == {a \in Areas : Read[a] \notin Cells}
<1>3. CASE T # {}
  <2>1. PICK x \in T : \A y \in T : x <= y
    BY <1>1, <1>3, Least
  <2>2. ~InFile(x) /\ ~(x < Cols) /\ Read[x] = Read[x - Cols]
    BY <1>1, <1>2, <2>1
  <2>3. x - Cols \in Areas /\ x - Cols < x /\ x \in Nat
    BY <1>1, <2>1, <2>2 DEF Areas
  <2>4. x - Cols \notin T
    BY <1>1, <2>1, <2>3
  <2> QED
    BY <2>1, <2>2, <2>3, <2>4
<1>4. CASE T = {}
  BY <1>2, <1>4
<1> QED
  BY <1>3, <1>4

-----------------------------------------------------------------------------
(* The daemon's counter and the other variables stay in their ranges.       *)
RangeInv ==
    /\ pc \in PCs /\ i \in 0 .. WORKERS /\ (pc \in {"fork", "openCommand"} => i < WORKERS)
    /\ target \in 0 .. WORKERS /\ withoutJob \in 0 .. WORKERS
    /\ channel \subseteq Workers /\ reaped \subseteq Workers
    /\ file \in [Areas -> Cells] /\ raster \in [Areas -> Cells]
    /\ faults \in 0 .. MaxFaults

LEMMA SendPC ==
  ASSUME NEW w, NEW m, NEW to \in PCs \ {"fork", "openCommand"}, Send(w, m, to)
  PROVE  pc' \in PCs /\ pc' \notin {"fork", "openCommand"}
BY DEF Send, PCs

LEMMA OutputCells ==
  ASSUME NEW m \in Report \cup {NoReport}, Output(m), file \in [Areas -> Cells]
  PROVE  file' \in [Areas -> Cells]
<1>1. CASE file' = file
  BY <1>1
<1>2. CASE /\ m.type = "DONE"
           /\ file' = [a \in Areas |-> IF a = m.aid THEN m.aid
                                       ELSE IF a < m.aid /\ file[a] = Null THEN Hole
                                       ELSE file[a]]
  <2>1. m \in Report
    BY <1>2, NoReportIsNone
  <2>2. m.aid \in Cells /\ Hole \in Cells
    BY <2>1 DEF Report, Cells
  <2> QED
    BY <1>2, <2>2
<1> QED
  BY <1>1, <1>2 DEF Output

LEMMA RangeServe ==
  ASSUME RangeInv, FarmInv, RliDaemonAssumption, Body \/ Drain PROVE RangeInv'
<1>1. /\ Receive /\ Output(doneJob') /\ withoutJob' = withoutJob
      /\ channel' = channel /\ reaped' = reaped /\ raster' = raster /\ faults' = faults
      /\ \/ i' = i /\ target' = target /\ pc = "body"
         \/ i > 0 /\ i' = i - 1 /\ target' = doneJob'.pid /\ pc = "drain"
  BY DEF Body, Drain
<1>2. doneJob' \in Report \cup {NoReport}
  BY <1>1, Served
<1>3. doneJob'.pid \in 0 .. WORKERS
  BY <1>2, RliDaemonAssumption DEF Report, NoReport, Workers, RliDaemonAssumption
<1>4. file' \in [Areas -> Cells]
  BY <1>1, <1>2, OutputCells DEF RangeInv
<1>5. pc' \in PCs /\ pc' \notin {"fork", "openCommand"}
  BY SendPC DEF Body, Drain, PCs
<1>6. i' \in 0 .. WORKERS /\ target' \in 0 .. WORKERS
  BY <1>1, <1>3, RliDaemonAssumption DEF RangeInv, RliDaemonAssumption
<1> QED
  BY <1>1, <1>4, <1>5, <1>6 DEF RangeInv

LEMMA RangeStep ==
  ASSUME RangeInv, FarmInv, RliDaemonAssumption, [Next]_vars PROVE RangeInv'
<1>0. WORKERS \in Nat /\ WORKERS >= 1 /\ MaxFaults \in Nat /\ i \in Nat
  BY DEF RliDaemonAssumption, RangeInv
<1>1. CASE UNCHANGED vars
  BY <1>1 DEF vars, RangeInv
<1>2. CASE Fork
  BY <1>2 DEF Fork, RangeInv, PCs
<1>3. CASE OpenCommand
  <2>1. i \in Workers /\ i + 1 \in 0 .. WORKERS
    BY <1>0, <1>3 DEF OpenCommand, RangeInv, Workers
  <2> QED
    BY <1>0, <1>3, <2>1 DEF OpenCommand, RangeInv, PCs
<1>4. CASE OpenReport
  BY <1>0, <1>4 DEF OpenReport, RangeInv, PCs
<1>5. CASE Schedule
  <2>1. /\ i' \in 0 .. WORKERS /\ withoutJob' \in 0 .. WORKERS
        /\ target' = target /\ channel' = channel /\ reaped' = reaped /\ file' = file
        /\ raster' = raster /\ faults' = faults
    BY <1>0, <1>5 DEF Schedule, output, RangeInv
  <2>2. pc' \in PCs /\ pc' \notin {"fork", "openCommand"}
    <3>1. CASE i < WORKERS /\ next < setup.areas
      <4>1. Send(i, next, "schedule")
        BY <1>5, <3>1 DEF Schedule
      <4>2. "schedule" \in PCs \ {"fork", "openCommand"}
        BY DEF PCs
      <4> QED
        BY <4>1, <4>2, SendPC
    <3>2. CASE ~(i < WORKERS /\ next < setup.areas)
      BY <1>5, <3>2 DEF Schedule, PCs
    <3> QED
      BY <3>1, <3>2
  <2> QED
    BY <2>1, <2>2 DEF RangeInv
<1>6. CASE Body \/ Drain
  BY <1>6, RangeServe
<1>7. CASE Drained
  BY <1>7 DEF Drained, output, RangeInv, PCs
<1>8. CASE EndIdle
  <2>1. /\ Send(i, Term, "waitIdle") /\ target' = i /\ i' = i + 1 /\ i < WORKERS
        /\ withoutJob' = withoutJob /\ channel' = channel /\ reaped' = reaped
        /\ file' = file /\ raster' = raster /\ faults' = faults
    BY <1>8 DEF EndIdle, output
  <2>2. "waitIdle" \in PCs \ {"fork", "openCommand"}
    BY DEF PCs
  <2>3. pc' \in PCs /\ pc' \notin {"fork", "openCommand"}
    BY <2>1, <2>2, SendPC
  <2> QED
    BY <1>0, <2>1, <2>3 DEF RangeInv
<1>9. CASE Wait
  BY <1>9 DEF Wait, output, RangeInv, PCs, Ended
<1>10. CASE Return
  <2>1. raster' \in [Areas -> Cells]
    BY <1>10, ReadIsCells DEF Return, RangeInv
  <2> QED
    BY <1>10, <2>1 DEF Return, RangeInv, PCs
<1>11. ASSUME NEW w \in Workers, Worker(w) PROVE RangeInv'
  BY <1>11 DEF Worker, StartWorker, WantReport, TakeJob, Answer, daemon, output, RangeInv
<1>12. ASSUME NEW w \in Workers, StartFails(w) \/ Die(w) PROVE RangeInv'
  BY <1>0, <1>12 DEF StartFails, Die, daemon, output, RangeInv
<1> QED
  BY <1>1, <1>2, <1>3, <1>4, <1>5, <1>6, <1>7, <1>8, <1>9, <1>10, <1>11, <1>12 DEF Next, Daemon

LEMMA RangeInit == ASSUME Init, RliDaemonAssumption PROVE RangeInv
BY DEF Init, RangeInv, PCs, Cells, RliDaemonAssumption

LEMMA RangeAlways == Spec => [](FarmInv /\ RangeInv)
<1>1. ASSUME Init PROVE FarmInv /\ RangeInv
  BY <1>1, FarmInit, RangeInit, RliDaemonAssumption
<1>2. ASSUME FarmInv /\ RangeInv, [Next]_vars PROVE (FarmInv /\ RangeInv)'
  BY <1>2, FarmStep, RangeStep, RliDaemonAssumption
<1> QED
  BY <1>1, <1>2, PTL DEF Spec

(* daemon.c:79-282, with ipc.c and worker.c: the counter of the daemon and  *)
(* the worker it waits for stay within its table, and every message is one  *)
(* that was sent, whichever workers fail to start or die.                   *)
THEOREM RliTypeOK == Spec => []TypeOK
<1>1. ASSUME FarmInv, RangeInv PROVE TypeOK
  <2>1. setup \in AnySetup /\ next \in 0 .. setup.areas /\ NAreas \in Nat
    BY <1>1, RliDaemonAssumption DEF FarmInv, Typed, RliDaemonAssumption
  <2>2. setup.areas \in 0 .. NAreas
    BY <2>1 DEF AnySetup
  <2>3. next \in 0 .. NAreas
    BY <2>1, <2>2
  <2> QED
    BY <1>1, <2>3 DEF TypeOK, FarmInv, Typed, RangeInv, Commands, Reports
<1>2. (FarmInv /\ RangeInv) => TypeOK
  BY <1>1
<1> QED
  BY <1>2, RangeAlways, PTL

-----------------------------------------------------------------------------
(* Workers that all start, live, and open the report pipe before the first  *)
(* area is given.                                                           *)
Orderly == FaultKinds = {} /\ PromptOpen

(* What a worker is about, once all have opened their pipes (commands c,    *)
(* places p, reports r): it was never given an area; it has one; its end is *)
(* in its pipe or it has read it; nothing of it is left.                    *)
NoReportOf(w, r) == \A k \in DOMAIN r : r[k].pid # w
Idle(w, c, p, r) == p[w] = "receive" /\ c[w] = <<>> /\ NoReportOf(w, r)
Busy(w, c, p, r) ==
    /\ p[w] \in {"receive", "compute"}
    /\ \A k \in DOMAIN c[w] : c[w][k] # Term
    /\ ~Jobless(w, c, p, r)
Leaving(w, c, p, r) ==
    /\ \/ p[w] = "receive" /\ c[w] = <<Term>>
       \/ p[w] = "ended" /\ c[w] = <<>>
    /\ NoReportOf(w, r)
Left(w, c, p, r) == p[w] = "ended" /\ c[w] = <<>> /\ NoReportOf(w, r)

IsIdle(w)    == w \notin reaped /\ Idle(w, command, wpc, report)
IsBusy(w)    == w \notin reaped /\ Busy(w, command, wpc, report)
IsLeaving(w) == w \notin reaped /\ Leaving(w, command, wpc, report)
HasLeft(w)   == w \in reaped /\ Left(w, command, wpc, report)
BusyOnes     == {w \in Workers : IsBusy(w)}

(* The daemon and the workers in each phase.                                *)
Meeting ==
    /\ next = 0 /\ report = <<>> /\ reaped = {} /\ channel = {w \in Workers : w < i}
    /\ pc = "openReport" => i = WORKERS
    /\ \A w \in Workers :
         /\ command[w] = <<>>
         /\ IF w \in channel THEN wpc[w] \in {"opened", "wantReport"}
            ELSE wpc[w] \in {"none", "start", "wantCommand"}
Opened(w) == w \notin reaped /\ wpc[w] = "opened" /\ command[w] = <<>> /\ NoReportOf(w, report)
Scheduling ==
    /\ next = i
    /\ \A w \in Workers : IF w < i THEN IsBusy(w) ELSE IsIdle(w) \/ (i = 0 /\ Opened(w))
Serving == withoutJob = WORKERS /\ i = WORKERS /\ \A w \in Workers : IsBusy(w)
Rest ==
    /\ next = setup.areas
    /\ \A w \in Workers : w >= withoutJob => IsIdle(w)
    /\ Cardinality(BusyOnes) = i
Draining == Rest /\ \A w \in Workers : w < withoutJob => IsBusy(w) \/ HasLeft(w)
Waiting ==
    /\ Rest /\ target \in Workers /\ target < withoutJob /\ IsLeaving(target)
    /\ \A w \in Workers : w < withoutJob /\ w # target => IsBusy(w) \/ HasLeft(w)
Ending ==
    /\ next = setup.areas
    /\ \A w \in Workers : IF w < i THEN HasLeft(w) ELSE IsIdle(w)
EndingOne ==
    /\ next = setup.areas /\ target \in Workers /\ i = target + 1 /\ IsLeaving(target)
    /\ \A w \in Workers : w # target => IF w < target THEN HasLeft(w) ELSE IsIdle(w)

Phase ==
    /\ Early => Meeting
    /\ ~Early => channel = Workers \ reaped
    /\ pc = "schedule" => Scheduling
    /\ pc = "body" => Serving
    /\ pc = "drain" => Draining
    /\ pc = "wait" => Waiting
    /\ pc = "idle" => Ending
    /\ pc = "waitIdle" => EndingOne
    /\ pc = "returned" => next = setup.areas /\ \A w \in Workers : HasLeft(w)
    /\ pc \notin {"killed", "undefined"} /\ ~misread

(* An area that was given and is nowhere any more has its result, if one is *)
(* due, in the output, and in the file of a moving window in its cell.      *)
DueAreas == IF setup.mvWin THEN Given \ setup.bad ELSE Given
HasResult(a) == out[a] > 0 /\ (setup.mvWin => file[a] = a)
NothingLost ==
    \A a \in DueAreas : a < next /\ Nowhere(a, command, wpc, job, report) => HasResult(a)
ReportsTrue ==
    \A k \in DOMAIN report : report[k].type = "DONE" <=> report[k].aid \notin setup.bad

OrderInv == Phase /\ NothingLost /\ ReportsTrue

FarmAll == FarmInv /\ JobInv /\ RangeInv

(* A worker that is not busy has no job.                                    *)
LEMMA RestHasNoJob ==
  ASSUME NEW w \in Workers, NEW c, NEW p, NEW r, Idle(w, c, p, r) \/ Leaving(w, c, p, r) \/ Left(w, c, p, r)
  PROVE  Jobless(w, c, p, r) /\ ~Busy(w, c, p, r) /\ NoReportOf(w, r)
<1>1. \A k \in DOMAIN c[w] : c[w][k] = Term
  <2>1. CASE c[w] = <<>>
    BY <2>1
  <2>2. CASE c[w] = <<Term>>
    BY <2>2
  <2> QED
    BY <2>1, <2>2 DEF Idle, Leaving, Left
<1> QED
  BY <1>1 DEF Idle, Leaving, Left, Busy, Jobless, NoReportOf

(* Reading its report leaves a worker idle, and the others as they are.     *)
LEMMA ReadLeavesIdle ==
  ASSUME NEW c \in Commands, NEW p, NEW r \in Reports, r # <<>>,
         \A w \in Workers : OneJob(w, c, p, r), \A k \in DOMAIN r : p[r[k].pid] \in Met,
         Busy(Head(r).pid, c, p, r)
  PROVE  /\ Idle(Head(r).pid, c, p, Tail(r))
         /\ \A v \in Workers : v # Head(r).pid =>
               /\ Idle(v, c, p, r) => Idle(v, c, p, Tail(r))
               /\ Busy(v, c, p, r) => Busy(v, c, p, Tail(r))
               /\ Left(v, c, p, r) => Left(v, c, p, Tail(r))
<1> DEFINE h == Head(r).pid
<1>1. /\ Head(r) \in Report /\ Head(r) = r[1] /\ 1 \in DOMAIN r
      /\ \A k \in DOMAIN Tail(r) : k \in Nat /\ k >= 1 /\ k + 1 \in DOMAIN r /\ Tail(r)[k] = r[k + 1]
      /\ \A k \in DOMAIN r : k # 1 => k - 1 \in DOMAIN Tail(r) /\ Tail(r)[k - 1] = r[k]
  BY DEF Reports
<1>2. h \in Workers /\ c[h] \in Seq(Areas \cup {Term})
  BY <1>1 DEF Report, Commands
<1>3. Jobless(h, c, p, Tail(r))
  BY ReadReport
<1>4. c[h] = <<>>
  <2>1. \A k \in DOMAIN c[h] : FALSE
    BY <1>3 DEF Jobless, Busy
  <2>2. Len(c[h]) \in Nat /\ DOMAIN c[h] = 1 .. Len(c[h])
    BY <1>2
  <2>3. 1 \notin 1 .. Len(c[h])
    BY <2>1, <2>2
  <2> QED
    BY <1>2, <2>3
<1>5. Idle(h, c, p, Tail(r))
  BY <1>3, <1>4 DEF Jobless, Busy, Idle, NoReportOf
<1>6. ASSUME NEW v \in Workers, v # h
      PROVE  /\ NoReportOf(v, r) => NoReportOf(v, Tail(r))
             /\ Jobless(v, c, p, Tail(r)) => Jobless(v, c, p, r)
  <2>1. NoReportOf(v, r) => NoReportOf(v, Tail(r))
    BY <1>1 DEF NoReportOf
  <2>2. ASSUME \A k \in DOMAIN Tail(r) : Tail(r)[k].pid # v, NEW k \in DOMAIN r PROVE r[k].pid # v
    BY <1>1, <1>6, <2>2
  <2> QED
    BY <2>1, <2>2 DEF Jobless
<1> QED
  BY <1>5, <1>6 DEF Idle, Busy, Left

(* An idle worker that is sent an area is busy; sent its end, it leaves.    *)
LEMMA SendChanges ==
  ASSUME NEW c \in Commands, NEW p, NEW r, NEW w \in Workers, NEW m \in Areas \cup {Term},
         NEW d, Sends(c, d, w, m), Idle(w, c, p, r)
  PROVE  /\ m # Term => Busy(w, d, p, r)
         /\ m = Term => Leaving(w, d, p, r)
         /\ \A v \in Workers : v # w =>
               /\ Idle(v, c, p, r) => Idle(v, d, p, r)
               /\ Busy(v, c, p, r) => Busy(v, d, p, r)
               /\ Left(v, c, p, r) => Left(v, d, p, r)
<1>1. /\ d[w] = <<m>> /\ \A v \in Workers : v # w => d[v] = c[v]
      /\ p[w] = "receive" /\ NoReportOf(w, r)
  BY DEF Sends, Idle
<1>2. DOMAIN d[w] = {1} /\ d[w][1] = m
  BY <1>1
<1>3. m # Term => Busy(w, d, p, r)
  BY <1>1, <1>2 DEF Busy, Jobless
<1>4. m = Term => Leaving(w, d, p, r)
  BY <1>1 DEF Leaving
<1> QED
  BY <1>1, <1>3, <1>4 DEF Idle, Busy, Left, Jobless

(* An area that is nowhere after a message was read, sent or taken was      *)
(* nowhere before, or is that of the message.                               *)
LEMMA NowhereRead ==
  ASSUME NEW c, NEW p, NEW j, NEW r \in Reports, r # <<>>, NEW a, a # Head(r).aid,
         Nowhere(a, c, p, j, Tail(r))
  PROVE  Nowhere(a, c, p, j, r)
<1>1. \A k \in DOMAIN r : IF k = 1 THEN r[k] = Head(r)
                          ELSE k - 1 \in DOMAIN Tail(r) /\ Tail(r)[k - 1] = r[k]
  BY DEF Reports
<1> QED
  BY <1>1 DEF Nowhere

LEMMA NowhereSent ==
  ASSUME NEW c \in Commands, NEW p, NEW j, NEW r, NEW w \in Workers, NEW m \in Areas \cup {Term},
         NEW d, Sends(c, d, w, m), NEW a, Nowhere(a, d, p, j, r)
  PROVE  a # m /\ Nowhere(a, c, p, j, r)
<1>1. /\ \A k \in DOMAIN c[w] : k \in DOMAIN d[w] /\ d[w][k] = c[w][k]
      /\ Len(c[w]) + 1 \in DOMAIN d[w] /\ d[w][Len(c[w]) + 1] = m
  BY DEF Sends, Commands
<1> QED
  BY <1>1 DEF Nowhere, Sends

LEMMA NowhereTaken ==
  ASSUME NEW c \in Commands, NEW p, NEW j, NEW r, NEW w \in Workers, NEW d, NEW q, NEW h,
         Takes(c, d, p, q, j, h, w), NEW a, a # Term, Nowhere(a, d, q, h, r)
  PROVE  Nowhere(a, c, p, j, r)
<1>1. \A k \in DOMAIN c[w] : IF k = 1 THEN c[w][k] = Head(c[w])
                             ELSE k - 1 \in DOMAIN d[w] /\ d[w][k - 1] = c[w][k]
  BY DEF Takes, Commands
<1>2. \A k \in DOMAIN c[w] : c[w][k] # a
  <2>1. Head(c[w]) # a
    BY DEF Nowhere, Takes
  <2>2. \A k \in DOMAIN d[w] : d[w][k] # a
    BY DEF Nowhere
  <2> QED
    BY <1>1, <2>1, <2>2
<1>3. \A v \in Workers : p[v] = "compute" => j[v] # a
  BY DEF Nowhere, Takes
<1> QED
  BY <1>2, <1>3 DEF Nowhere, Takes

-----------------------------------------------------------------------------
LEMMA WorkersFinite ==
  ASSUME RliDaemonAssumption PROVE IsFiniteSet(Workers) /\ Cardinality(Workers) = WORKERS
<1>1. WORKERS \in Nat
  BY DEF RliDaemonAssumption
<1> QED
  BY <1>1, FS_Interval DEF Workers

(* As long as an answer is due there is one that answers, and the report    *)
(* the daemon reads is of a busy worker.                                    *)
LEMMA ReadsReport ==
  ASSUME FarmAll, Phase, RliDaemonAssumption, Receive, pc = "body" \/ (pc = "drain" /\ i > 0)
  PROVE  /\ report # <<>> /\ doneJob' = Head(report) /\ report' = Tail(report)
         /\ misread' = misread
         /\ doneJob'.pid \in Workers /\ IsBusy(doneJob'.pid)
         /\ pc = "drain" => doneJob'.pid < withoutJob
<1>1. /\ pc = "body" => Serving
      /\ pc = "drain" => Draining
      /\ report \in Reports
  BY DEF Phase, FarmAll, FarmInv, Typed
<1>2. \E w \in Workers : IsBusy(w)
  <2>1. CASE pc = "body"
    <3>1. 0 \in Workers
      BY RliDaemonAssumption DEF Workers, RliDaemonAssumption
    <3> QED
      BY <1>1, <2>1, <3>1 DEF Serving
  <2>2. CASE pc = "drain"
    <3>1. BusyOnes # {}
      BY <1>1, <2>2, FS_EmptySet DEF Draining, Rest
    <3> QED
      BY <3>1 DEF BusyOnes
  <2> QED
    BY <2>1, <2>2
<1>3. Writing # {}
  BY <1>2 DEF Writing, IsBusy, Busy
<1>4. report # <<>> /\ doneJob' = Head(report) /\ report' = Tail(report) /\ misread' = misread
  BY <1>3 DEF Receive
<1>5. Head(report) \in Report /\ 1 \in DOMAIN report /\ report[1] = Head(report)
  BY <1>1, <1>4 DEF Reports
<1>6. doneJob'.pid \in Workers /\ ~NoReportOf(doneJob'.pid, report)
  BY <1>4, <1>5 DEF Report, NoReportOf
<1>7. ~IsIdle(doneJob'.pid) /\ ~HasLeft(doneJob'.pid)
  BY <1>6 DEF IsIdle, HasLeft, Idle, Left
<1>8. IsBusy(doneJob'.pid) /\ (pc = "drain" => doneJob'.pid < withoutJob)
  <2>1. CASE pc = "body"
    BY <1>1, <1>6, <2>1 DEF Serving
  <2>2. CASE pc = "drain"
    <3>1. withoutJob \in Int /\ doneJob'.pid \in Int
      BY <1>6 DEF FarmAll, RangeInv, Workers
    <3>2. ~(doneJob'.pid >= withoutJob)
      BY <1>1, <1>6, <1>7, <2>2 DEF Draining, Rest
    <3> QED
      BY <1>1, <1>6, <1>7, <2>2, <3>1, <3>2 DEF Draining
  <2> QED
    BY <2>1, <2>2
<1> QED
  BY <1>4, <1>6, <1>8

(* What the answer and the message to the worker it names leave of the      *)
(* workers.                                                                 *)
LEMMA ServesOne ==
  ASSUME FarmAll, Phase, RliDaemonAssumption, Receive, pc = "body" \/ (pc = "drain" /\ i > 0),
         NEW m \in Areas \cup {Term}, NEW to, Send(doneJob'.pid, m, to)
  PROVE  LET w == doneJob'.pid
         IN  /\ pc' = to /\ Sends(command, command', w, m)
             /\ m # Term => Busy(w, command', wpc, report')
             /\ m = Term => Leaving(w, command', wpc, report')
             /\ \A v \in Workers : v # w =>
                  /\ Idle(v, command, wpc, report) => Idle(v, command', wpc, report')
                  /\ Busy(v, command, wpc, report) => Busy(v, command', wpc, report')
                  /\ Left(v, command, wpc, report) => Left(v, command', wpc, report')
<1> DEFINE w == doneJob'.pid
<1>1. /\ report # <<>> /\ w = Head(report).pid /\ report' = Tail(report)
      /\ w \in Workers /\ w \notin reaped /\ Busy(w, command, wpc, report)
  BY ReadsReport DEF IsBusy
<1>2. /\ command \in Commands /\ report \in Reports
      /\ \A v \in Workers : OneJob(v, command, wpc, report)
      /\ \A k \in DOMAIN report : wpc[report[k].pid] \in Met
  BY DEF FarmAll, FarmInv, Typed, JobInv, JobsApart, ReportsMet
<1>3. Busy(Head(report).pid, command, wpc, report)
  BY <1>1
<1>4. /\ Idle(w, command, wpc, report')
      /\ \A v \in Workers : v # w =>
           /\ Idle(v, command, wpc, report) => Idle(v, command, wpc, report')
           /\ Busy(v, command, wpc, report) => Busy(v, command, wpc, report')
           /\ Left(v, command, wpc, report) => Left(v, command, wpc, report')
  BY <1>1, <1>2, <1>3, ReadLeavesIdle
<1>5. w \in channel /\ w \in Reading
  BY <1>1, <1>4 DEF Phase, Early, Idle, Reading
<1>6. pc' = to /\ Sends(command, command', w, m)
  BY <1>1, <1>2, <1>5 DEF Send, Sends, Commands
<1> HIDE DEF w
<1>7. /\ m # Term => Busy(w, command', wpc, report')
      /\ m = Term => Leaving(w, command', wpc, report')
      /\ \A v \in Workers : v # w =>
           /\ Idle(v, command, wpc, report') => Idle(v, command', wpc, report')
           /\ Busy(v, command, wpc, report') => Busy(v, command', wpc, report')
           /\ Left(v, command, wpc, report') => Left(v, command', wpc, report')
  BY <1>1, <1>2, <1>4, <1>6, SendChanges
<1> QED
  BY <1>4, <1>6, <1>7 DEF w

(* As many are busy as were given an area.                                  *)
LEMMA BusyCounted ==
  ASSUME NEW n \in 0 .. WORKERS, RliDaemonAssumption,
         \A w \in Workers : IF w < n THEN IsBusy(w) ELSE IsIdle(w)
  PROVE  Cardinality(BusyOnes) = n
<1>1. WORKERS \in Nat /\ n \in Nat
  BY DEF RliDaemonAssumption
<1>2. \A w \in Workers : IsIdle(w) => ~IsBusy(w)
  BY RestHasNoJob DEF IsIdle, IsBusy
<1>3. BusyOnes = 0 .. n - 1
  BY <1>1, <1>2 DEF BusyOnes, Workers
<1> QED
  BY <1>1, <1>3, FS_Interval

LEMMA PhaseBody ==
  ASSUME FarmAll, Phase, RliDaemonAssumption, Body PROVE Phase'
<1> DEFINE w == doneJob'.pid
           to == IF next + 1 < setup.areas THEN "body" ELSE "drain"
<1>1. /\ pc = "body" /\ Receive /\ Send(w, next, to) /\ next' = next + 1 /\ setup' = setup
      /\ i' = i /\ withoutJob' = withoutJob /\ channel' = channel /\ reaped' = reaped
      /\ wpc' = wpc
  BY DEF Body, workers
<1>2. Serving /\ next \in Areas /\ next # Term /\ next < setup.areas /\ next + 1 <= setup.areas
      /\ setup.areas \in Int /\ next \in Int
  <2>1. setup \in AnySetup /\ next \in 0 .. setup.areas /\ next < setup.areas
    BY <1>1 DEF FarmAll, FarmInv, Typed
  <2>2. setup.areas \in 0 .. NAreas
    BY <2>1 DEF AnySetup
  <2> QED
    BY <1>1, <2>1, <2>2, NextIsArea DEF Phase
<1>3. /\ w \in Workers /\ misread' = misread /\ \A v \in Workers : IsBusy(v)
  BY <1>1, <1>2, ReadsReport DEF Serving
<1>4. /\ pc' = to /\ Busy(w, command', wpc, report')
      /\ \A v \in Workers : v # w =>
           (Busy(v, command, wpc, report) => Busy(v, command', wpc, report'))
  BY <1>1, <1>2, ServesOne
<1>5. \A v \in Workers : IsBusy(v)'
  BY <1>1, <1>3, <1>4 DEF IsBusy
<1>6. CASE pc' = "body"
  BY <1>1, <1>2, <1>3, <1>5, <1>6 DEF Phase, Serving, Early
<1>7. CASE pc' = "drain"
  <2>1. next' = setup'.areas
    BY <1>1, <1>2, <1>4, <1>7
  <2>2. WORKERS \in Nat /\ withoutJob' = WORKERS /\ i' = WORKERS
        /\ \A v \in Workers : v < WORKERS /\ v \in Int
    BY <1>1, <1>2, RliDaemonAssumption DEF Serving, Workers, RliDaemonAssumption
  <2>3. BusyOnes' = Workers
    BY <1>5 DEF BusyOnes
  <2>4. Draining'
    BY <1>5, <2>1, <2>2, <2>3, WorkersFinite DEF Draining, Rest
  <2> QED
    BY <1>1, <1>3, <1>7, <2>4 DEF Phase, Early
<1> QED
  BY <1>4, <1>6, <1>7

LEMMA PhaseDrain ==
  ASSUME FarmAll, Phase, RliDaemonAssumption, Drain PROVE Phase'
<1>1. /\ pc = "drain" /\ i > 0 /\ Receive /\ Send(doneJob'.pid, Term, "wait")
      /\ i' = i - 1 /\ target' = doneJob'.pid
      /\ next' = next /\ setup' = setup /\ withoutJob' = withoutJob /\ channel' = channel
      /\ reaped' = reaped /\ wpc' = wpc /\ i \in Nat
  BY DEF Drain, workers, FarmAll, FarmInv, Typed
<1>2. Draining
  BY <1>1 DEF Phase
<1>3. PICK w \in Workers :
        w = doneJob'.pid /\ misread' = misread /\ IsBusy(w) /\ w < withoutJob
  BY <1>1, ReadsReport
<1>4. /\ pc' = "wait" /\ Leaving(w, command', wpc, report')
      /\ \A v \in Workers : v # w =>
           /\ Idle(v, command, wpc, report) => Idle(v, command', wpc, report')
           /\ Busy(v, command, wpc, report) => Busy(v, command', wpc, report')
           /\ Left(v, command, wpc, report) => Left(v, command', wpc, report')
  BY <1>1, <1>3, ServesOne
<1>5. IsLeaving(w)' /\ ~IsBusy(w)'
  <2>1. ~Busy(w, command', wpc, report')
    BY <1>3, <1>4, RestHasNoJob
  <2> QED
    BY <1>1, <1>3, <1>4, <2>1 DEF IsLeaving, IsBusy
<1>6. ASSUME NEW v \in Workers, v # w
      PROVE  /\ IsIdle(v) => IsIdle(v)'
             /\ IsBusy(v) => IsBusy(v)'
             /\ HasLeft(v) => HasLeft(v)'
             /\ IsIdle(v) \/ HasLeft(v) => ~IsBusy(v)'
  <2>1. /\ IsIdle(v) => IsIdle(v)'
        /\ IsBusy(v) => IsBusy(v)'
        /\ HasLeft(v) => HasLeft(v)'
    BY <1>1, <1>4, <1>6 DEF IsIdle, IsBusy, HasLeft
  <2>2. IsIdle(v)' \/ HasLeft(v)' => ~IsBusy(v)'
    BY RestHasNoJob, <1>1 DEF IsIdle, HasLeft, IsBusy
  <2> QED
    BY <2>1, <2>2
<1>7. withoutJob \in Int /\ \A v \in Workers : v \in Int
  BY DEF FarmAll, RangeInv, Workers
<1>8. \A v \in Workers : v # w => (IsBusy(v)' <=> IsBusy(v))
  BY <1>2, <1>6, <1>7 DEF Draining, Rest
<1>9. BusyOnes' = BusyOnes \ {w}
  BY <1>5, <1>8 DEF BusyOnes
<1>10. Cardinality(BusyOnes') = i'
  <2>1. IsFiniteSet(BusyOnes) /\ w \in BusyOnes /\ Cardinality(BusyOnes) = i
    <3>1. BusyOnes \subseteq Workers
      BY DEF BusyOnes
    <3> QED
      BY <1>2, <1>3, <3>1, WorkersFinite, FS_Subset DEF BusyOnes, Draining, Rest
  <2>2. Cardinality(BusyOnes \ {w}) = Cardinality(BusyOnes) - 1
    BY <2>1, FS_RemoveElement
  <2> QED
    BY <1>1, <1>9, <2>1, <2>2
<1>11. Waiting'
  <2>1. \A v \in Workers : v >= withoutJob => v # w
    BY <1>3, <1>7
  <2>2. Rest'
    BY <1>1, <1>2, <1>6, <1>10, <2>1 DEF Rest, Draining
  <2>3. \A v \in Workers : v < withoutJob' /\ v # target' => IsBusy(v)' \/ HasLeft(v)'
    BY <1>1, <1>2, <1>3, <1>6 DEF Draining
  <2> QED
    BY <1>1, <1>3, <1>5, <2>2, <2>3 DEF Waiting
<1> QED
  BY <1>1, <1>3, <1>4, <1>11 DEF Phase, Early

LEMMA PhaseSchedule ==
  ASSUME FarmAll, Phase, RliDaemonAssumption, Orderly, Schedule PROVE Phase'
<1>1. /\ pc = "schedule" /\ wpc' = wpc /\ report' = report /\ channel' = channel
      /\ reaped' = reaped /\ setup' = setup /\ misread' = misread
      /\ \A w \in Workers : wpc[w] # "opened"
  BY DEF Schedule, workers, Orderly
<1>2. next = i /\ \A w \in Workers : IF w < i THEN IsBusy(w) ELSE IsIdle(w)
  BY <1>1 DEF Phase, Scheduling, Opened
<1>3. /\ i \in 0 .. WORKERS /\ WORKERS \in Nat /\ command \in Commands
      /\ setup \in AnySetup /\ next \in 0 .. setup.areas
  BY RliDaemonAssumption DEF FarmAll, FarmInv, Typed, RangeInv, RliDaemonAssumption
<1>4. setup.areas \in Nat
  BY <1>3, RliDaemonAssumption DEF AnySetup, RliDaemonAssumption
<1>5. channel = Workers \ reaped
  BY <1>1 DEF Phase, Early
<1>6. CASE i < WORKERS /\ next < setup.areas
  <2>1. Send(i, next, "schedule") /\ next' = next + 1 /\ i' = i + 1
    BY <1>6 DEF Schedule
  <2>2. next \in Areas /\ next # Term /\ i \in Workers
    BY <1>3, <1>6, NextIsArea, RliDaemonAssumption DEF Workers
  <2>3. i \notin reaped /\ Idle(i, command, wpc, report)
    BY <1>2, <1>3, <2>2 DEF IsIdle
  <2>4. pc' = "schedule" /\ Sends(command, command', i, next)
    <3>1. i \in channel /\ i \in Reading
      BY <1>5, <2>2, <2>3 DEF Idle, Reading
    <3> QED
      BY <1>3, <2>1, <2>2, <3>1 DEF Send, Sends, Commands
  <2>5. /\ Busy(i, command', wpc, report)
        /\ \A v \in Workers : v # i =>
             /\ Idle(v, command, wpc, report) => Idle(v, command', wpc, report)
             /\ Busy(v, command, wpc, report) => Busy(v, command', wpc, report)
    BY <1>3, <2>2, <2>3, <2>4, SendChanges
  <2>6. ASSUME NEW v \in Workers PROVE IF v < i + 1 THEN IsBusy(v)' ELSE IsIdle(v)'
    <3>1. CASE v = i
      BY <1>1, <1>3, <2>3, <2>5, <3>1 DEF IsBusy
    <3>2. CASE v # i
      <4>1. v \in Int /\ (v < i + 1 <=> v < i)
        BY <1>3, <3>2 DEF Workers
      <4> QED
        BY <1>1, <1>2, <2>5, <3>2, <4>1 DEF IsBusy, IsIdle
    <3> QED
      BY <3>1, <3>2
  <2>7. Scheduling'
    BY <1>2, <2>1, <2>6 DEF Scheduling
  <2> QED
    BY <1>1, <1>5, <2>4, <2>7 DEF Phase, Early
<1>7. CASE ~(i < WORKERS /\ next < setup.areas)
  <2>1. /\ pc' = (IF next < setup.areas THEN "body" ELSE "drain") /\ withoutJob' = i
        /\ next' = next /\ i' = i /\ command' = command
    BY <1>7 DEF Schedule
  <2>2. Cardinality(BusyOnes) = i
    BY <1>2, <1>3, BusyCounted, RliDaemonAssumption
  <2>3. \A v \in Workers : v \in Int /\ IF v < i THEN IsBusy(v)' ELSE IsIdle(v)'
    BY <1>1, <1>2, <2>1 DEF IsBusy, IsIdle, Workers
  <2>4. BusyOnes' = BusyOnes
    BY <1>1, <2>1 DEF BusyOnes, IsBusy
  <2>5. CASE pc' = "body"
    <3>1. i = WORKERS
      BY <1>3, <1>7, <2>1, <2>5
    <3>2. Serving'
      BY <2>1, <2>3, <3>1 DEF Serving, Workers
    <3> QED
      BY <1>1, <1>5, <2>5, <3>2 DEF Phase, Early
  <2>6. CASE pc' = "drain"
    <3>1. next' = setup'.areas
      BY <1>1, <1>3, <1>4, <2>1, <2>6
    <3>2. \A v \in Workers : (v >= i => IsIdle(v)') /\ (v < i => IsBusy(v)')
      BY <1>3, <2>3
    <3>3. Draining'
      BY <2>1, <2>2, <2>4, <3>1, <3>2 DEF Draining, Rest
    <3> QED
      BY <1>1, <1>5, <2>6, <3>3 DEF Phase, Early
  <2> QED
    BY <2>1, <2>5, <2>6
<1> QED
  BY <1>6, <1>7

LEMMA PhaseMeeting ==
  ASSUME FarmAll, Phase, RliDaemonAssumption, Fork \/ OpenCommand \/ OpenReport PROVE Phase'
<1>1. Meeting /\ WORKERS \in Nat /\ WORKERS >= 1 /\ i \in Nat /\ wpc \in [Workers -> WPCs]
  BY RliDaemonAssumption
     DEF Fork, OpenCommand, OpenReport, Phase, Early, RliDaemonAssumption, FarmAll, FarmInv, Typed
<1>2. CASE Fork
  <2>1. i \notin channel /\ wpc' = [wpc EXCEPT ![i] = "start"]
    BY <1>1, <1>2 DEF Fork, Meeting
  <2> QED
    BY <1>1, <1>2, <2>1 DEF Fork, Meeting, Phase, Early
<1>3. CASE OpenCommand
  <2>1. /\ i \in Workers /\ wpc' = [wpc EXCEPT ![i] = "opened"] /\ i' = i + 1
        /\ channel' = channel \cup {i}
        /\ pc' = IF i + 1 < WORKERS THEN "fork" ELSE "openReport"
    BY <1>1, <1>3 DEF OpenCommand, FarmAll, RangeInv, Workers
  <2>2. channel' = {w \in Workers : w < i'} /\ (pc' = "openReport" => i' = WORKERS)
    BY <1>1, <2>1 DEF Meeting, Workers
  <2>3. Meeting'
    BY <1>1, <1>3, <2>1, <2>2 DEF OpenCommand, Meeting
  <2> QED
    BY <1>3, <2>1, <2>3 DEF OpenCommand, Phase, Early
<1>4. CASE OpenReport
  <2>1. /\ i = WORKERS /\ i' = 0 /\ pc' = "schedule" /\ next' = 0 /\ report' = <<>>
        /\ reaped' = {} /\ channel' = channel /\ misread' = misread
        /\ \A w \in Workers : command'[w] = <<>>
    BY <1>1, <1>4 DEF OpenReport, Meeting
  <2>2. channel' = Workers \ reaped'
    BY <1>1, <2>1 DEF Meeting, Workers
  <2>3. \A w \in Workers : wpc[w] \in {"opened", "wantReport"}
    BY <1>1, <2>1 DEF Meeting, Workers
  <2>4. \A w \in Workers : wpc'[w] \in {"opened", "receive"}
    BY <1>4, <2>3 DEF OpenReport
  <2>5. \A w \in Workers : IsIdle(w)' \/ Opened(w)'
    BY <2>1, <2>4 DEF IsIdle, Idle, Opened, NoReportOf
  <2>6. Scheduling'
    <3>1. \A w \in Workers : ~(w < 0)
      BY DEF Workers
    <3> QED
      BY <2>1, <2>5, <3>1 DEF Scheduling
  <2> QED
    BY <2>1, <2>2, <2>6 DEF Phase, Early
<1> QED
  BY <1>2, <1>3, <1>4

LEMMA PhaseDrained ==
  ASSUME FarmAll, Phase, RliDaemonAssumption, Drained \/ Return PROVE Phase'
<1>0. WORKERS \in Nat
  BY DEF RliDaemonAssumption
<1>1. /\ wpc' = wpc /\ command' = command /\ report' = report /\ reaped' = reaped
      /\ channel' = channel /\ next' = next /\ setup' = setup /\ misread' = misread
      /\ \A v \in Workers : v \in Nat /\ (IsIdle(v) => IsIdle(v)') /\ (HasLeft(v) => HasLeft(v)')
  BY DEF Drained, Return, workers, IsIdle, HasLeft, Workers
<1>2. CASE Drained
  <2>1. Draining /\ i = 0 /\ pc' = "idle" /\ i' = withoutJob /\ withoutJob \in Nat
    BY <1>2 DEF Drained, Phase, FarmAll, FarmInv, Typed
  <2>2. \A v \in Workers : ~IsBusy(v)
    <3>1. IsFiniteSet(BusyOnes) /\ Cardinality(BusyOnes) = 0
      <4>1. BusyOnes \subseteq Workers
        BY DEF BusyOnes
      <4> QED
        BY <2>1, <4>1, WorkersFinite, FS_Subset DEF Draining, Rest
    <3>2. BusyOnes = {}
      BY <3>1, FS_EmptySet
    <3> QED
      BY <3>2 DEF BusyOnes
  <2>3. \A v \in Workers : IF v < withoutJob THEN HasLeft(v) ELSE IsIdle(v)
    BY <1>1, <2>1, <2>2 DEF Draining, Rest
  <2>4. Ending'
    BY <1>1, <2>1, <2>3 DEF Ending, Draining, Rest
  <2> QED
    BY <1>1, <1>2, <2>1, <2>4 DEF Drained, Phase, Early
<1>3. CASE Return
  <2>1. Ending /\ i = WORKERS /\ pc' = "returned"
    BY <1>3 DEF Return, Phase
  <2>2. \A v \in Workers : v < WORKERS
    BY <1>0 DEF Workers
  <2>3. next' = setup'.areas /\ \A w \in Workers : HasLeft(w)'
    BY <1>1, <2>1, <2>2 DEF Ending
  <2> QED
    BY <1>1, <1>3, <2>1, <2>3 DEF Return, Phase, Early
<1> QED
  BY <1>2, <1>3

LEMMA PhaseEndIdle ==
  ASSUME FarmAll, Phase, RliDaemonAssumption, EndIdle PROVE Phase'
<1>1. /\ pc = "idle" /\ i < WORKERS /\ Send(i, Term, "waitIdle") /\ target' = i /\ i' = i + 1
      /\ wpc' = wpc /\ report' = report /\ reaped' = reaped /\ channel' = channel
      /\ next' = next /\ setup' = setup /\ misread' = misread
  BY DEF EndIdle, workers, output
<1>2. i \in Workers /\ i \in Nat /\ command \in Commands
  BY <1>1, RliDaemonAssumption DEF FarmAll, FarmInv, Typed, Workers, RliDaemonAssumption
<1>3. Ending /\ channel = Workers \ reaped
  BY <1>1 DEF Phase, Early
<1>4. i \notin reaped /\ Idle(i, command, wpc, report)
  BY <1>2, <1>3 DEF Ending, IsIdle
<1>5. pc' = "waitIdle" /\ Sends(command, command', i, Term)
  <2>1. i \in channel /\ i \in Reading
    BY <1>2, <1>3, <1>4 DEF Idle, Reading
  <2> QED
    BY <1>1, <1>2, <2>1 DEF Send, Sends, Commands
<1>6. /\ Leaving(i, command', wpc, report)
      /\ \A v \in Workers : v # i =>
           /\ Idle(v, command, wpc, report) => Idle(v, command', wpc, report)
           /\ Left(v, command, wpc, report) => Left(v, command', wpc, report)
  BY <1>2, <1>4, <1>5, SendChanges
<1>7. EndingOne'
  <2>1. \A v \in Workers : v # i => IF v < i THEN HasLeft(v)' ELSE IsIdle(v)'
    BY <1>1, <1>3, <1>6 DEF Ending, HasLeft, IsIdle
  <2>2. IsLeaving(target)'
    BY <1>1, <1>4, <1>6 DEF IsLeaving
  <2> QED
    BY <1>1, <1>2, <1>3, <2>1, <2>2 DEF Ending, EndingOne
<1> QED
  BY <1>1, <1>3, <1>5, <1>7 DEF Phase, Early

(* The only child that wait() can return is the worker just told to end.    *)
LEMMA ReapsTarget ==
  ASSUME FarmAll, Phase, Wait
  PROVE  /\ target \in Workers /\ reaped' = reaped \cup {target}
         /\ target \notin reaped /\ Left(target, command, wpc, report)
<1>1. pc \in {"wait", "waitIdle"} /\ target \in Workers /\ IsLeaving(target)
  BY DEF Wait, Phase, Waiting, EndingOne
<1>2. \A v \in Workers : v # target => IsIdle(v) \/ IsBusy(v) \/ HasLeft(v)
  <2>1. CASE pc = "wait"
    <3>1. Waiting /\ withoutJob \in Int /\ \A v \in Workers : v \in Int
      BY <2>1 DEF Phase, FarmAll, RangeInv, Workers
    <3> QED
      BY <3>1 DEF Waiting, Rest
  <2>2. CASE pc = "waitIdle"
    BY <2>2 DEF Phase, EndingOne
  <2> QED
    BY <1>1, <2>1, <2>2
<1>3. \A v \in Ended \ reaped : v = target /\ wpc[v] = "ended"
  BY <1>2 DEF Ended, IsIdle, IsBusy, HasLeft, Idle, Busy
<1>4. PICK v \in Ended \ reaped : reaped' = reaped \cup {v}
  BY <1>1 DEF Wait, IsLeaving
<1>5. v = target /\ wpc[target] = "ended"
  BY <1>3, <1>4
<1> QED
  BY <1>1, <1>4, <1>5 DEF IsLeaving, Leaving, Left

LEMMA PhaseWait ==
  ASSUME FarmAll, Phase, RliDaemonAssumption, Wait PROVE Phase'
<1>1. /\ pc \in {"wait", "waitIdle"} /\ pc' = (IF pc = "wait" THEN "drain" ELSE "idle")
      /\ wpc' = wpc /\ command' = command /\ report' = report /\ channel' = channel \ {target}
      /\ i' = i /\ withoutJob' = withoutJob /\ next' = next /\ setup' = setup
      /\ misread' = misread
  BY DEF Wait, workers, output
<1>2. /\ target \in Workers /\ reaped' = reaped \cup {target} /\ target \notin reaped
      /\ Left(target, command, wpc, report) /\ channel = Workers \ reaped
  BY <1>1, ReapsTarget DEF Phase, Early
<1>3. channel' = Workers \ reaped'
  BY <1>1, <1>2
<1>4. \A v \in Workers : v # target =>
        /\ v \in Int /\ (IsIdle(v) => IsIdle(v)') /\ (HasLeft(v) => HasLeft(v)')
        /\ (IsBusy(v) <=> IsBusy(v)')
  BY <1>1, <1>2 DEF IsIdle, IsBusy, HasLeft, Workers
<1>5. PICK u \in Workers : u = target /\ HasLeft(u)'
  <2>1. \E u \in Workers : u = target
    BY <1>2
  <2>2. PICK u \in Workers : u = target
    BY <2>1
  <2>3. HasLeft(u)'
    BY <1>1, <1>2, <2>2 DEF HasLeft
  <2> QED
    BY <2>2, <2>3
<1>6. CASE pc = "wait"
  <2>1. Waiting /\ withoutJob \in Int
    BY <1>6 DEF Phase, FarmAll, RangeInv
  <2>2. BusyOnes' = BusyOnes
    <3>1. ~IsBusy(u) /\ ~IsBusy(u)'
      <4>1. ~Busy(u, command, wpc, report)
        BY <1>2, <1>5, RestHasNoJob
      <4> QED
        BY <1>1, <4>1 DEF IsBusy
    <3> QED
      BY <1>4, <1>5, <3>1 DEF BusyOnes
  <2>3. Draining'
    <3>1. \A v \in Workers : v >= withoutJob => v # target /\ IsIdle(v)'
      BY <1>2, <1>4, <1>5, <2>1 DEF Waiting, Rest, Workers
    <3>2. \A v \in Workers : v < withoutJob => IsBusy(v)' \/ HasLeft(v)'
      BY <1>4, <1>5, <2>1 DEF Waiting
    <3> QED
      BY <1>1, <2>1, <2>2, <3>1, <3>2 DEF Draining, Waiting, Rest
  <2> QED
    BY <1>1, <1>3, <1>6, <2>3 DEF Phase, Early
<1>7. CASE pc = "waitIdle"
  <2>1. EndingOne
    BY <1>7 DEF Phase
  <2>2. \A v \in Workers : IF v < i THEN HasLeft(v)' ELSE IsIdle(v)'
    <3>1. ASSUME NEW v \in Workers, v # u PROVE IF v < i THEN HasLeft(v)' ELSE IsIdle(v)'
      <4>1. v < i <=> v < u
        BY <1>5, <2>1, <3>1 DEF EndingOne, Workers
      <4> QED
        BY <1>4, <1>5, <2>1, <3>1, <4>1 DEF EndingOne
    <3>2. u < i
      BY <1>5, <2>1 DEF EndingOne, Workers
    <3> QED
      BY <1>5, <3>1, <3>2
  <2>3. Ending'
    BY <1>1, <2>1, <2>2 DEF Ending, EndingOne
  <2> QED
    BY <1>1, <1>3, <1>7, <2>3 DEF Phase, Early
<1> QED
  BY <1>1, <1>6, <1>7

(* Where a worker is once the report pipe is open.                          *)
LEMMA Classes ==
  ASSUME FarmAll, Phase, ~Early, NEW v \in Workers
  PROVE  IsIdle(v) \/ IsBusy(v) \/ IsLeaving(v) \/ HasLeft(v) \/ (pc = "schedule" /\ Opened(v))
<1>1. /\ pc \in PCs /\ withoutJob \in Int /\ v \in Int /\ i \in Int
  BY DEF FarmAll, RangeInv, Workers
<1>2. CASE pc \in {"schedule", "body"}
  BY <1>1, <1>2 DEF Phase, Scheduling, Serving
<1>3. CASE pc = "drain"
  BY <1>1, <1>3 DEF Phase, Draining, Rest
<1>4. CASE pc = "wait"
  BY <1>1, <1>4 DEF Phase, Waiting, Rest
<1>5. CASE pc \in {"idle", "waitIdle", "returned"}
  BY <1>1, <1>5 DEF Phase, Ending, EndingOne
<1> QED
  BY <1>1, <1>2, <1>3, <1>4, <1>5 DEF Phase, Early, PCs

(* A step of a worker that keeps every worker what it is keeps the phase.   *)
ClassesKept ==
    \A v \in Workers :
        /\ (IsIdle(v) => IsIdle(v)') /\ (IsBusy(v) => IsBusy(v)')
        /\ (IsLeaving(v) => IsLeaving(v)') /\ (HasLeft(v) => HasLeft(v)')
        /\ (Opened(v) => Opened(v)' \/ IsIdle(v)')

LEMMA PhaseKept ==
  ASSUME FarmAll, Phase, ~Early, ClassesKept, UNCHANGED daemon, setup' = setup, misread' = misread
  PROVE  Phase'
<1>1. /\ pc' = pc /\ i' = i /\ next' = next /\ target' = target /\ withoutJob' = withoutJob
      /\ channel' = channel /\ reaped' = reaped
  BY DEF daemon
<1>2. BusyOnes' = BusyOnes \/ pc = "schedule"
  <2>1. ASSUME pc # "schedule", NEW v \in Workers PROVE IsBusy(v)' <=> IsBusy(v)
    <3>1. (IsIdle(v)' \/ IsLeaving(v)' \/ HasLeft(v)') => ~IsBusy(v)'
      BY RestHasNoJob, <1>1 DEF IsIdle, IsLeaving, HasLeft, IsBusy
    <3> QED
      BY <2>1, <3>1, Classes DEF ClassesKept
  <2> QED
    BY <2>1 DEF BusyOnes
<1>3. target \in Workers /\ IsLeaving(target) => IsLeaving(target)'
  <2>1. target \in Workers /\ IsLeaving(target) => \E u \in Workers : u = target /\ IsLeaving(u)'
    BY DEF ClassesKept
  <2> QED
    BY <1>1, <2>1 DEF IsLeaving
<1>4. ~Early'
  BY <1>1 DEF Early
<1>5. channel' = Workers \ reaped'
  BY <1>1 DEF Phase
<1>6. pc = "schedule" => Scheduling'
  BY <1>1 DEF Phase, Scheduling, ClassesKept
<1>7. pc = "body" => Serving'
  BY <1>1 DEF Phase, Serving, ClassesKept
<1>8. pc = "drain" => Draining'
  BY <1>1, <1>2 DEF Phase, Draining, Rest, ClassesKept
<1>9. pc = "wait" => Waiting'
  BY <1>1, <1>2, <1>3 DEF Phase, Waiting, Rest, ClassesKept
<1>10. pc = "idle" => Ending'
  BY <1>1 DEF Phase, Ending, ClassesKept
<1>11. pc = "waitIdle" => EndingOne'
  BY <1>1, <1>3 DEF Phase, EndingOne, ClassesKept
<1>12. pc = "returned" => next' = setup'.areas /\ \A w \in Workers : HasLeft(w)'
  BY <1>1 DEF Phase, ClassesKept
<1> QED
  BY <1>1, <1>4, <1>5, <1>6, <1>7, <1>8, <1>9, <1>10, <1>11, <1>12 DEF Phase

LEMMA PhaseTakeJob ==
  ASSUME FarmAll, Phase, NEW w \in Workers, TakeJob(w) PROVE Phase'
<1>1. /\ wpc[w] = "receive" /\ command[w] # <<>> /\ command \in Commands
      /\ wpc \in [Workers -> WPCs]
      /\ command'[w] = Tail(command[w]) /\ report' = report /\ reaped' = reaped
      /\ \A v \in Workers : v # w => command'[v] = command[v] /\ wpc'[v] = wpc[v]
      /\ \/ Head(command[w]) = Term /\ wpc'[w] = "ended"
         \/ Head(command[w]) # Term /\ wpc'[w] = "compute"
      /\ UNCHANGED daemon /\ setup' = setup /\ misread' = misread
  BY DEF TakeJob, daemon, output, FarmAll, FarmInv, Typed, Commands
<1>2. /\ command[w] \in Seq(Areas \cup {Term}) /\ 1 \in DOMAIN command[w]
      /\ Head(command[w]) = command[w][1]
      /\ \A k \in DOMAIN Tail(command[w]) :
            k + 1 \in DOMAIN command[w] /\ Tail(command[w])[k] = command[w][k + 1]
  BY <1>1 DEF Commands
<1>3. ~Early
  BY <1>1 DEF Phase, Meeting
<1>4. IsBusy(w) => IsBusy(w)'
  <2>1. ASSUME IsBusy(w) PROVE wpc'[w] = "compute" /\ \A k \in DOMAIN command'[w] : command'[w][k] # Term
    BY <1>1, <1>2, <2>1 DEF IsBusy, Busy
  <2> QED
    BY <1>1, <2>1 DEF IsBusy, Busy, Jobless
<1>5. IsLeaving(w) => IsLeaving(w)'
  <2>1. ASSUME IsLeaving(w) PROVE wpc'[w] = "ended" /\ command'[w] = <<>>
    <3>1. command[w] = <<Term>>
      BY <1>1, <2>1 DEF IsLeaving, Leaving
    <3>2. Head(command[w]) = Term /\ Tail(command[w]) = <<>>
      BY <3>1
    <3> QED
      BY <1>1, <3>2
  <2> QED
    BY <1>1, <2>1 DEF IsLeaving, Leaving, NoReportOf
<1>6. ~IsIdle(w) /\ ~HasLeft(w) /\ ~Opened(w)
  BY <1>1 DEF IsIdle, Idle, HasLeft, Left, Opened
<1>7. ClassesKept
  <2>1. ASSUME NEW v \in Workers, v # w
        PROVE  /\ (IsIdle(v) => IsIdle(v)') /\ (IsBusy(v) => IsBusy(v)')
               /\ (IsLeaving(v) => IsLeaving(v)') /\ (HasLeft(v) => HasLeft(v)')
               /\ (Opened(v) => Opened(v)')
    BY <1>1, <2>1 DEF IsIdle, Idle, IsBusy, Busy, IsLeaving, Leaving, HasLeft, Left, Opened,
       Jobless, NoReportOf
  <2> QED
    BY <1>4, <1>5, <1>6, <2>1 DEF ClassesKept
<1> QED
  BY <1>1, <1>3, <1>7, PhaseKept

LEMMA PhaseAnswer ==
  ASSUME FarmAll, Phase, NEW w \in Workers, Answer(w) PROVE Phase'
<1>1. PICK e : e.pid = w /\ report' = Append(report, e)
  BY DEF Answer
<1>2. /\ wpc[w] = "compute" /\ wpc'[w] = "receive" /\ report \in Seq(Report)
      /\ \A v \in Workers : v # w => wpc'[v] = wpc[v]
      /\ command' = command /\ reaped' = reaped
      /\ UNCHANGED daemon /\ setup' = setup /\ misread' = misread
  BY DEF Answer, daemon, output, FarmAll, FarmInv, Typed, Reports
<1>3. /\ DOMAIN report' = DOMAIN report \cup {Len(report) + 1}
      /\ report'[Len(report) + 1] = e
      /\ \A k \in DOMAIN report : report'[k] = report[k]
  BY <1>1, <1>2
<1>4. ~Early
  BY <1>2 DEF Phase, Meeting
<1>5. IsBusy(w) => IsBusy(w)'
  <2>1. ~Jobless(w, command', wpc', report')
    BY <1>1, <1>3 DEF Jobless
  <2> QED
    BY <1>2, <2>1 DEF IsBusy, Busy
<1>6. ~IsIdle(w) /\ ~IsLeaving(w) /\ ~HasLeft(w) /\ ~Opened(w)
  BY <1>2 DEF IsIdle, Idle, IsLeaving, Leaving, HasLeft, Left, Opened
<1>7. ClassesKept
  <2>1. ASSUME NEW v \in Workers, v # w
        PROVE  /\ (IsIdle(v) => IsIdle(v)') /\ (IsBusy(v) => IsBusy(v)')
               /\ (IsLeaving(v) => IsLeaving(v)') /\ (HasLeft(v) => HasLeft(v)')
               /\ (Opened(v) => Opened(v)')
    <3>1. /\ NoReportOf(v, report) => NoReportOf(v, report')
          /\ Jobless(v, command', wpc', report') => Jobless(v, command, wpc, report)
      BY <1>1, <1>2, <1>3, <2>1 DEF NoReportOf, Jobless
    <3> QED
      BY <1>2, <2>1, <3>1 DEF IsIdle, Idle, IsBusy, Busy, IsLeaving, Leaving, HasLeft, Left, Opened
  <2> QED
    BY <1>5, <1>6, <2>1 DEF ClassesKept
<1> QED
  BY <1>2, <1>4, <1>7, PhaseKept

LEMMA PhaseOpen ==
  ASSUME FarmAll, Phase, NEW w \in Workers, StartWorker(w) \/ WantReport(w) PROVE Phase'
<1>1. /\ command' = command /\ report' = report /\ reaped' = reaped /\ channel' = channel
      /\ UNCHANGED daemon /\ setup' = setup /\ misread' = misread /\ pc' = pc /\ i' = i
      /\ next' = next
      /\ wpc \in [Workers -> WPCs]
      /\ \A v \in Workers : v # w => wpc'[v] = wpc[v]
      /\ \/ wpc[w] = "start" /\ wpc'[w] = "wantCommand"
         \/ wpc[w] = "opened" /\ wpc'[w] = IF Early THEN "wantReport" ELSE "receive"
  BY DEF StartWorker, WantReport, daemon, output, FarmAll, FarmInv, Typed, Early
<1>2. CASE Early
  <2>1. Meeting'
    BY <1>1, <1>2 DEF Phase, Meeting
  <2> QED
    BY <1>1, <1>2, <2>1 DEF Phase, Early
<1>3. CASE ~Early
  <2>1. ~IsIdle(w) /\ ~IsBusy(w) /\ ~IsLeaving(w) /\ ~HasLeft(w)
    BY <1>1 DEF IsIdle, Idle, IsBusy, Busy, IsLeaving, Leaving, HasLeft, Left
  <2>2. Opened(w) => IsIdle(w)'
    BY <1>1, <1>3 DEF Opened, IsIdle, Idle
  <2>3. ClassesKept
    BY <1>1, <2>1, <2>2 DEF ClassesKept, IsIdle, Idle, IsBusy, Busy, IsLeaving, Leaving, HasLeft,
       Left, Opened, Jobless, NoReportOf
  <2> QED
    BY <1>1, <1>3, <2>3, PhaseKept
<1> QED
  BY <1>2, <1>3

LEMMA PhaseStep ==
  ASSUME FarmAll, Phase, RliDaemonAssumption, Orderly, [Next]_vars PROVE Phase'
<1>1. CASE UNCHANGED vars
  BY <1>1 DEF vars, Phase, Early, Meeting, Scheduling, Serving, Draining, Waiting, Rest, Ending,
     EndingOne, BusyOnes, IsIdle, IsBusy, IsLeaving, HasLeft, Opened
<1>2. CASE Fork \/ OpenCommand \/ OpenReport
  BY <1>2, PhaseMeeting
<1>3. CASE Schedule
  BY <1>3, PhaseSchedule
<1>4. CASE Body
  BY <1>4, PhaseBody
<1>5. CASE Drain
  BY <1>5, PhaseDrain
<1>6. CASE Drained \/ Return
  BY <1>6, PhaseDrained
<1>7. CASE EndIdle
  BY <1>7, PhaseEndIdle
<1>8. CASE Wait
  BY <1>8, PhaseWait
<1>9. ASSUME NEW w \in Workers, Worker(w) PROVE Phase'
  BY <1>9, PhaseOpen, PhaseTakeJob, PhaseAnswer DEF Worker
<1>10. ASSUME NEW w \in Workers, StartFails(w) \/ Die(w) PROVE FALSE
  BY <1>10 DEF StartFails, Die, Orderly
<1> QED
  BY <1>1, <1>2, <1>3, <1>4, <1>5, <1>6, <1>7, <1>8, <1>9, <1>10 DEF Next, Daemon

LEMMA PhaseInit == ASSUME Init, RliDaemonAssumption PROVE Phase
<1>1. Meeting
  <2>1. {w \in Workers : w < 0} = {}
    BY DEF Workers
  <2> QED
    BY <2>1 DEF Init, Meeting
<1> QED
  BY <1>1 DEF Init, Phase, Early

-----------------------------------------------------------------------------
OrderAll == FarmAll /\ OrderInv

(* The raster has what the file had.                                        *)
RasterDone == pc = "returned" /\ setup.mvWin => \A a \in DueAreas : raster[a] = a

LEMMA DueAreAreas ==
  ASSUME setup \in AnySetup, RliDaemonAssumption
  PROVE  DueAreas \subseteq Areas /\ \A a \in DueAreas : a \in Nat /\ a < setup.areas
<1>1. setup.areas \in 0 .. NAreas /\ NAreas \in Nat
  BY DEF AnySetup, RliDaemonAssumption
<1> QED
  BY <1>1 DEF DueAreas, Given, Areas

(* A result that is in the output stays.                                    *)
LEMMA ResultStays ==
  ASSUME NEW m \in Report, Output(m), out \in [Areas -> Nat], file \in [Areas -> Cells],
         setup' = setup, NEW a \in Areas
  PROVE  /\ HasResult(a) => HasResult(a)'
         /\ a = m.aid /\ (setup.mvWin => m.type = "DONE") => HasResult(a)'
<1>1. m.aid \in Areas /\ m.type \in {"DONE", "ERROR"} /\ a \in Int /\ Null \notin Areas
  BY DEF Report, Areas, Null
<1>2. CASE ~setup.mvWin
  <2>1. out' = [out EXCEPT ![m.aid] = out[m.aid] + 1]
    BY <1>1, <1>2 DEF Output
  <2> QED
    BY <1>1, <1>2, <2>1 DEF HasResult
<1>3. CASE setup.mvWin /\ m.type = "DONE"
  <2>1. /\ out' = [out EXCEPT ![m.aid] = out[m.aid] + 1]
        /\ file' = [b \in Areas |-> IF b = m.aid THEN m.aid
                                    ELSE IF b < m.aid /\ file[b] = Null THEN Hole
                                    ELSE file[b]]
    BY <1>3 DEF Output
  <2>2. file[a] = a \/ a = m.aid => file'[a] = a
    BY <1>1, <2>1
  <2> QED
    BY <1>1, <1>3, <2>1, <2>2 DEF HasResult
<1>4. CASE setup.mvWin /\ m.type # "DONE"
  BY <1>1, <1>4 DEF Output, HasResult
<1> QED
  BY <1>2, <1>3, <1>4

(* What the daemon reads is the result of an area that is due, or of one    *)
(* that fails and leaves nothing in the raster.                             *)
LEMMA ReadsResult ==
  ASSUME OrderAll, RliDaemonAssumption, Receive, Output(doneJob'),
         pc = "body" \/ (pc = "drain" /\ i > 0)
  PROVE  LET m == doneJob'
         IN  /\ m \in Report /\ m = Head(report) /\ report # <<>> /\ report' = Tail(report)
             /\ m.aid \in Given
             /\ m.type = "DONE" <=> m.aid \notin setup.bad
             /\ m.aid \in Areas /\ out[m.aid] = 0
<1>1. /\ report # <<>> /\ doneJob' = Head(report) /\ report' = Tail(report)
      /\ report \in Reports /\ setup \in AnySetup
      /\ next \in 0 .. setup.areas
  BY ReadsReport DEF OrderAll, OrderInv, FarmAll, FarmInv, Typed
<1>2. Head(report) \in Report /\ 1 \in DOMAIN report /\ report[1] = Head(report)
  BY <1>1 DEF Reports
<1>3. doneJob'.aid < next
  BY <1>1, <1>2, Served DEF OrderAll, FarmAll
<1>4. doneJob'.aid \in Areas /\ doneJob'.aid \in Nat
  BY <1>1, <1>2 DEF Report, Areas
<1>5. doneJob'.aid \in Given
  <2>1. setup.areas \in Nat
    BY <1>1, RliDaemonAssumption DEF AnySetup, RliDaemonAssumption
  <2> QED
    BY <1>1, <1>3, <1>4, <2>1 DEF Given
<1>6. doneJob'.type = "DONE" <=> doneJob'.aid \notin setup.bad
  BY <1>1, <1>2 DEF OrderAll, OrderInv, ReportsTrue
<1>7. out[doneJob'.aid] = 0
  <2>1. ~Gone(doneJob'.aid)
    BY <1>1, <1>2 DEF Gone, Nowhere
  <2> QED
    BY <1>4, <2>1 DEF OrderAll, FarmAll, FarmInv, Typed, OutGone
<1> QED
  BY <1>1, <1>2, <1>4, <1>5, <1>6, <1>7

LEMMA ResultsServe ==
  ASSUME OrderAll, RliDaemonAssumption, Receive, Output(doneJob'), setup' = setup,
         pc = "body" \/ (pc = "drain" /\ i > 0), wpc' = wpc, job' = job,
         NEW m \in Areas \cup {Term}, NEW to, Send(doneJob'.pid, m, to),
         IF m = Term THEN next' = next ELSE m = next /\ next' = next + 1
  PROVE  NothingLost' /\ ReportsTrue'
<1> DEFINE e == doneJob'
<1>1. /\ e \in Report /\ e = Head(report) /\ report # <<>> /\ report' = Tail(report)
      /\ e.type = "DONE" <=> e.aid \notin setup.bad
  BY ReadsResult
<1>2. /\ command \in Commands /\ report \in Reports /\ setup \in AnySetup /\ next \in Int
      /\ out \in [Areas -> Nat] /\ file \in [Areas -> Cells]
  BY DEF OrderAll, FarmAll, FarmInv, Typed, RangeInv
<1>3. ReportsTrue'
  <2>1. \A k \in DOMAIN Tail(report) : k + 1 \in DOMAIN report /\ Tail(report)[k] = report[k + 1]
    BY <1>1, <1>2 DEF Reports
  <2> QED
    BY <1>1, <2>1 DEF OrderAll, OrderInv, ReportsTrue
<1>4. e.pid \in Workers /\ Sends(command, command', e.pid, m)
  BY ReadsReport, ServesOne DEF OrderAll, OrderInv
<1> HIDE DEF e
<1>5. ASSUME NEW a \in DueAreas, a < next', Nowhere(a, command', wpc, job, report')
      PROVE  HasResult(a)'
  <2>1. a \in Areas /\ a \in Nat /\ a # Term
    BY <1>2, DueAreAreas, RliDaemonAssumption DEF Term
  <2>2. a # m /\ Nowhere(a, command, wpc, job, report')
    BY <1>2, <1>4, <1>5, NowhereSent
  <2>3. a < next
    BY <1>2, <1>5, <2>1, <2>2
  <2>4. CASE a = e.aid
    <3>1. setup.mvWin => e.type = "DONE"
      BY <1>1, <1>5, <2>4 DEF DueAreas
    <3> QED
      BY <1>1, <1>2, <2>1, <2>4, <3>1, ResultStays DEF e
  <2>5. CASE a # e.aid
    <3>1. Nowhere(a, command, wpc, job, report)
      BY <1>1, <1>2, <2>2, <2>5, NowhereRead
    <3>2. HasResult(a)
      BY <1>5, <2>3, <3>1 DEF OrderAll, OrderInv, NothingLost
    <3> QED
      BY <1>1, <1>2, <2>1, <3>2, ResultStays DEF e
  <2> QED
    BY <2>4, <2>5
<1>6. DueAreas' = DueAreas
  BY DEF DueAreas, Given
<1> QED
  BY <1>3, <1>5, <1>6 DEF NothingLost

(* Steps that read no report and send nothing to the output.                *)
LEMMA ResultsElse ==
  ASSUME OrderAll, setup' = setup, out' = out, file' = file,
         \A a \in DueAreas : a < next' /\ Gone(a)' => a < next /\ Gone(a),
         \A k \in DOMAIN report' : report'[k].type = "DONE" <=> report'[k].aid \notin setup.bad
  PROVE  NothingLost' /\ ReportsTrue'
<1>1. DueAreas' = DueAreas
  BY DEF DueAreas, Given
<1> QED
  BY <1>1 DEF OrderAll, OrderInv, NothingLost, ReportsTrue, HasResult, Gone

LEMMA ResultsSend ==
  ASSUME OrderAll, RliDaemonAssumption, setup' = setup, out' = out, file' = file,
         wpc' = wpc, job' = job, report' = report,
         NEW w, NEW m \in Areas \cup {Term}, NEW to, Send(w, m, to), pc' \notin {"killed", "undefined"},
         w \in channel,
         IF m = Term THEN next' = next ELSE m = next /\ next' = next + 1
  PROVE  NothingLost' /\ ReportsTrue'
<1>1. command \in Commands /\ setup \in AnySetup /\ next \in Int /\ channel \subseteq Workers
  BY DEF OrderAll, FarmAll, FarmInv, Typed, RangeInv
<1>3. w \in Workers /\ Sends(command, command', w, m)
  BY <1>1 DEF Send, Sends, Commands
<1>4. ASSUME NEW a \in DueAreas, a < next', Gone(a)' PROVE a < next /\ Gone(a)
  <2>1. a \in Nat
    BY <1>1, DueAreAreas
  <2>2. a # m /\ Gone(a)
    BY <1>1, <1>3, <1>4, NowhereSent DEF Gone
  <2> QED
    BY <1>1, <1>4, <2>1, <2>2
<1>5. \A k \in DOMAIN report' : report'[k].type = "DONE" <=> report'[k].aid \notin setup.bad
  BY DEF OrderAll, OrderInv, ReportsTrue
<1> QED
  BY <1>4, <1>5, ResultsElse

LEMMA ResultsTakeJob ==
  ASSUME OrderAll, NEW w \in Workers, TakeJob(w), RliDaemonAssumption
  PROVE  NothingLost' /\ ReportsTrue'
<1>1. /\ setup' = setup /\ out' = out /\ file' = file /\ report' = report /\ next' = next
      /\ command \in Commands /\ setup \in AnySetup /\ wpc[w] = "receive"
      /\ wpc \in [Workers -> WPCs] /\ job \in [Workers -> Nat]
  BY DEF TakeJob, daemon, output, OrderAll, FarmAll, FarmInv, Typed
<1>2. Takes(command, command', wpc, wpc', job, job', w)
  BY <1>1 DEF TakeJob, Commands, Takes
<1>3. ASSUME NEW a \in DueAreas, a < next', Gone(a)' PROVE a < next /\ Gone(a)
  <2>1. a # Term
    BY <1>1, DueAreAreas DEF Term
  <2> QED
    BY <1>1, <1>2, <1>3, <2>1, NowhereTaken DEF Gone
<1>4. \A k \in DOMAIN report' : report'[k].type = "DONE" <=> report'[k].aid \notin setup.bad
  BY <1>1 DEF OrderAll, OrderInv, ReportsTrue
<1> QED
  BY <1>1, <1>3, <1>4, ResultsElse

LEMMA ResultsAnswer ==
  ASSUME OrderAll, NEW w \in Workers, Answer(w) PROVE NothingLost' /\ ReportsTrue'
<1>1. PICK e : /\ e.aid = job[w] /\ report' = Append(report, e)
               /\ e.type = "DONE" <=> e.aid \notin setup.bad
  BY DEF Answer
<1>2. /\ setup' = setup /\ out' = out /\ file' = file /\ next' = next /\ job' = job
      /\ command' = command /\ report \in Seq(Report) /\ wpc[w] = "compute"
      /\ \A v \in Workers : v # w => wpc'[v] = wpc[v]
  BY DEF Answer, daemon, output, OrderAll, FarmAll, FarmInv, Typed, Reports
<1>3. /\ DOMAIN report' = DOMAIN report \cup {Len(report) + 1}
      /\ report'[Len(report) + 1] = e
      /\ \A k \in DOMAIN report : report'[k] = report[k]
  BY <1>1, <1>2
<1>4. ASSUME NEW a \in DueAreas, a < next', Gone(a)' PROVE a < next /\ Gone(a)
  <2>1. a # job[w]
    BY <1>1, <1>3, <1>4 DEF Gone, Nowhere
  <2> QED
    BY <1>2, <1>3, <1>4, <2>1 DEF Gone, Nowhere
<1>5. \A k \in DOMAIN report' : report'[k].type = "DONE" <=> report'[k].aid \notin setup.bad
  BY <1>1, <1>3 DEF OrderAll, OrderInv, ReportsTrue
<1> QED
  BY <1>2, <1>4, <1>5, ResultsElse

(* Steps that move no area and no message.                                  *)
LEMMA ResultsStill ==
  ASSUME OrderAll, setup' = setup, out' = out, file' = file, next' = next, job' = job,
         command' = command, report' = report,
         \A v \in Workers : wpc[v] = "compute" => wpc'[v] = "compute"
  PROVE  NothingLost' /\ ReportsTrue'
<1>1. \A a \in DueAreas : a < next' /\ Gone(a)' => a < next /\ Gone(a)
  BY DEF Gone, Nowhere
<1>2. \A k \in DOMAIN report' : report'[k].type = "DONE" <=> report'[k].aid \notin setup.bad
  BY DEF OrderAll, OrderInv, ReportsTrue
<1> QED
  BY <1>1, <1>2, ResultsElse

LEMMA OrderStep ==
  ASSUME OrderAll, RliDaemonAssumption, Orderly, [Next]_vars PROVE OrderInv'
<1>1. Phase' /\ Phase
  BY PhaseStep DEF OrderAll, OrderInv
<1>0. wpc \in [Workers -> WPCs] /\ next \in Int /\ Term \notin Areas
  BY DEF OrderAll, FarmAll, FarmInv, Typed, Areas, Term
<1>2. CASE UNCHANGED vars
  BY <1>2, ResultsStill, <1>1 DEF vars, OrderInv
<1>3. CASE Fork \/ OpenCommand \/ OpenReport
  <2>1. \A v \in Workers : wpc[v] = "compute" => wpc'[v] = "compute"
    BY <1>0, <1>1, <1>3 DEF Fork, OpenCommand, OpenReport, Phase, Early, Meeting
  <2>2. /\ setup' = setup /\ out' = out /\ file' = file /\ next' = next /\ job' = job
        /\ command' = command /\ report' = report
    BY <1>3 DEF Fork, OpenCommand, OpenReport
  <2> QED
    BY <1>1, <2>1, <2>2, ResultsStill DEF OrderInv
<1>4. CASE Drained \/ Wait \/ Return
  <2>1. /\ setup' = setup /\ out' = out /\ file' = file /\ next' = next /\ job' = job
        /\ command' = command /\ report' = report /\ wpc' = wpc
    BY <1>4 DEF Drained, Wait, Return, workers, output
  <2> QED
    BY <1>1, <2>1, ResultsStill DEF OrderInv
<1>5. CASE Schedule
  <2>0. /\ setup' = setup /\ out' = out /\ file' = file /\ job' = job /\ report' = report
        /\ wpc' = wpc
    BY <1>5 DEF Schedule, workers, output
  <2>1. CASE i < WORKERS /\ next < setup.areas
    <3>1. Send(i, next, "schedule") /\ next' = next + 1 /\ pc = "schedule"
      BY <1>5, <2>1 DEF Schedule
    <3>2. next \in Areas /\ next # Term
      BY <2>1, NextIsArea DEF OrderAll, FarmAll, FarmInv, Typed
    <3>3. i \in channel
      <4>1. i \in Workers
        BY <2>1 DEF OrderAll, FarmAll, FarmInv, Typed, Workers
      <4>2. i \notin reaped
        BY <1>1, <3>1, <4>1 DEF Phase, Scheduling, IsIdle, Opened, Workers
      <4> QED
        BY <1>1, <3>1, <4>1, <4>2 DEF Phase, Early
    <3>4. pc' \notin {"killed", "undefined"}
      BY <1>1 DEF Phase
    <3> QED
      BY <1>1, <2>0, <3>1, <3>2, <3>3, <3>4, ResultsSend DEF OrderInv
  <2>2. CASE ~(i < WORKERS /\ next < setup.areas)
    BY <1>1, <1>5, <2>0, <2>2, ResultsStill DEF Schedule, OrderInv
  <2> QED
    BY <2>1, <2>2
<1>6. CASE Body
  <2>1. /\ Receive /\ Output(doneJob') /\ setup' = setup /\ pc = "body" /\ wpc' = wpc /\ job' = job
        /\ Send(doneJob'.pid, next, IF next + 1 < setup.areas THEN "body" ELSE "drain")
        /\ next' = next + 1
    BY <1>6 DEF Body, workers
  <2>2. next \in Areas /\ next # Term
    BY <2>1, NextIsArea DEF OrderAll, FarmAll, FarmInv, Typed
  <2> QED
    BY <1>1, <2>1, <2>2, ResultsServe DEF OrderInv
<1>7. CASE Drain
  <2>1. /\ Receive /\ Output(doneJob') /\ setup' = setup /\ pc = "drain" /\ i > 0
        /\ wpc' = wpc /\ job' = job /\ Send(doneJob'.pid, Term, "wait") /\ next' = next
    BY <1>7 DEF Drain, workers
  <2> QED
    BY <1>1, <2>1, ResultsServe DEF OrderInv
<1>8. CASE EndIdle
  <2>1. /\ setup' = setup /\ out' = out /\ file' = file /\ job' = job /\ report' = report
        /\ wpc' = wpc /\ Send(i, Term, "waitIdle") /\ next' = next /\ pc = "idle" /\ i < WORKERS
    BY <1>8 DEF EndIdle, workers, output
  <2>2. i \in channel
    <3>1. i \in Workers
      BY <2>1 DEF OrderAll, FarmAll, FarmInv, Typed, Workers
    <3>2. i \notin reaped
      BY <1>1, <2>1, <3>1 DEF Phase, Ending, IsIdle, Workers
    <3> QED
      BY <1>1, <2>1, <3>1, <3>2 DEF Phase, Early
  <2>3. pc' \notin {"killed", "undefined"}
    BY <1>1 DEF Phase
  <2> QED
    BY <1>1, <2>1, <2>2, <2>3, ResultsSend DEF OrderInv
<1>9. ASSUME NEW w \in Workers, Worker(w) PROVE OrderInv'
  <2>1. CASE StartWorker(w) \/ WantReport(w)
    <3>1. /\ setup' = setup /\ out' = out /\ file' = file /\ next' = next /\ job' = job
          /\ command' = command /\ report' = report
      BY <2>1 DEF StartWorker, WantReport, daemon, output
    <3>2. \A v \in Workers : wpc[v] = "compute" => wpc'[v] = "compute"
      BY <1>0, <2>1 DEF StartWorker, WantReport
    <3> QED
      BY <1>1, <3>1, <3>2, ResultsStill DEF OrderInv
  <2>2. CASE TakeJob(w)
    BY <1>1, <2>2, ResultsTakeJob DEF OrderInv
  <2>3. CASE Answer(w)
    BY <1>1, <2>3, ResultsAnswer DEF OrderInv
  <2> QED
    BY <1>9, <2>1, <2>2, <2>3 DEF Worker
<1>10. ASSUME NEW w \in Workers, StartFails(w) \/ Die(w) PROVE FALSE
  BY <1>10 DEF StartFails, Die, Orderly
<1> QED
  BY <1>2, <1>3, <1>4, <1>5, <1>6, <1>7, <1>8, <1>9, <1>10 DEF Next, Daemon

LEMMA OrderInit == ASSUME Init, RliDaemonAssumption PROVE OrderAll
<1>1. \A a : ~(a \in DueAreas /\ a < next)
  BY DEF Init, DueAreas, Given
<1>2. NothingLost
  BY <1>1 DEF NothingLost
<1>3. ReportsTrue
  BY DEF Init, ReportsTrue
<1>4. Phase /\ FarmAll
  BY PhaseInit, FarmInit, JobInit, RangeInit DEF FarmAll
<1> QED
  BY <1>2, <1>3, <1>4 DEF OrderAll, OrderInv

(* When all workers have left every area that is due has its result.        *)
LEMMA AllDone ==
  ASSUME OrderAll, RliDaemonAssumption, pc = "idle", i = WORKERS, NEW a \in DueAreas
  PROVE  HasResult(a)
<1>1. Ending /\ report \in Reports /\ setup \in AnySetup
  BY DEF OrderAll, OrderInv, Phase, FarmAll, FarmInv, Typed
<1>2. \A w \in Workers : Left(w, command, wpc, report)
  <2>1. \A w \in Workers : w < i
    BY RliDaemonAssumption DEF Workers, RliDaemonAssumption
  <2> QED
    BY <1>1, <2>1 DEF Ending, HasLeft
<1>3. \A k \in DOMAIN report : FALSE
  <2>1. \A k \in DOMAIN report : report[k].pid \in Workers
    BY ReportPids DEF OrderAll, FarmAll
  <2> QED
    BY <1>2, <2>1 DEF Left, NoReportOf
<1>4. Nowhere(a, command, wpc, job, report)
  BY <1>2, <1>3 DEF Left, Nowhere
<1>5. a < next
  BY <1>1, DueAreAreas, RliDaemonAssumption DEF Ending
<1> QED
  BY <1>4, <1>5 DEF OrderAll, OrderInv, NothingLost

LEMMA RasterInit == ASSUME Init PROVE RasterDone
BY DEF Init, RasterDone

LEMMA RasterStep ==
  ASSUME OrderAll, RasterDone, RliDaemonAssumption, Orderly, [Next]_vars PROVE RasterDone'
<1>1. DueAreas' = DueAreas /\ setup' = setup
  <2>1. setup' = setup
    BY DEF vars, Next, Daemon, Worker, Fork, OpenCommand, OpenReport, Schedule, Body, Drain, Drained,
       EndIdle, Wait, Return, StartWorker, WantReport, TakeJob, Answer, StartFails, Die
  <2> QED
    BY <2>1 DEF DueAreas, Given
<1>2. CASE Return
  <2>1. /\ pc = "idle" /\ i = WORKERS /\ file' = file
        /\ raster' = IF setup.mvWin THEN Read ELSE raster
    BY <1>2 DEF Return
  <2>2. /\ setup \in AnySetup /\ Null \notin Areas
        /\ \A a \in Areas : Read[a] = IF InFile(a) THEN file[a]
                                      ELSE IF a < Cols THEN Unset ELSE Read[a - Cols]
    BY ReadIs, RliDaemonAssumption
       DEF ReadUpTo, Areas, Null, OrderAll, FarmAll, FarmInv, Typed
  <2>3. ASSUME setup.mvWin, NEW a \in DueAreas PROVE raster'[a] = a
    <3>1. a \in Areas /\ a \in Nat /\ HasResult(a)
      BY <2>1, <2>2, DueAreAreas, AllDone, RliDaemonAssumption
    <3>2. file[a] = a /\ InFile(a)
      BY <2>2, <2>3, <3>1 DEF HasResult, InFile, WrittenCells
    <3> QED
      BY <2>1, <2>2, <2>3, <3>1, <3>2
  <2> QED
    BY <1>1, <2>3 DEF RasterDone
<1>3. CASE pc' # "returned"
  BY <1>3 DEF RasterDone
<1>4. CASE raster' = raster /\ pc' = pc
  BY <1>1, <1>4 DEF RasterDone
<1>5. UNCHANGED vars => raster' = raster /\ pc' = pc
  BY DEF vars
<1>6. Fork \/ OpenCommand \/ OpenReport \/ Drained \/ Wait => pc' # "returned"
  BY DEF Fork, OpenCommand, OpenReport, Drained, Wait
<1>7. Schedule \/ Body \/ Drain \/ EndIdle => pc' # "returned"
  BY DEF Schedule, Body, Drain, EndIdle, Send
<1>8. ASSUME NEW w \in Workers, Worker(w) \/ StartFails(w) \/ Die(w)
      PROVE  raster' = raster /\ pc' = pc
  BY <1>8 DEF Worker, StartWorker, WantReport, TakeJob, Answer, StartFails, Die, daemon, output
<1> QED
  BY <1>2, <1>3, <1>4, <1>5, <1>6, <1>7, <1>8 DEF Next, Daemon

LEMMA OrderAlways == ASSUME Orderly PROVE Spec => [](OrderAll /\ RasterDone)
<1>1. ASSUME Init PROVE OrderAll /\ RasterDone
  BY <1>1, OrderInit, RasterInit, RliDaemonAssumption
<1>2. ASSUME OrderAll /\ RasterDone, [Next]_vars PROVE (OrderAll /\ RasterDone)'
  <2>1. FarmAll'
    BY <1>2, FarmStep, JobStep, RangeStep, RliDaemonAssumption DEF OrderAll, FarmAll
  <2> QED
    BY <1>2, <2>1, OrderStep, RasterStep, RliDaemonAssumption DEF OrderAll
<1> QED
  BY <1>1, <1>2, PTL DEF Spec

(* daemon.c:206-281: when calculateIndex returns, every worker has been     *)
(* waited for and every pipe is closed and read, for any number of workers  *)
(* and areas, as long as the workers start, live and are in time.           *)
THEOREM RliNoneLeft == Orderly => (Spec => []NoneLeft)
<1> SUFFICES ASSUME Orderly PROVE Spec => []NoneLeft
  OBVIOUS
<1>1. ASSUME OrderAll PROVE NoneLeft
  <2>1. ASSUME pc = "returned"
        PROVE  reaped = Workers /\ channel = {} /\ \A w \in Workers : command[w] = <<>>
    <3>1. (\A w \in Workers : HasLeft(w)) /\ channel = Workers \ reaped /\ reaped \subseteq Workers
      BY <1>1, <2>1 DEF OrderAll, OrderInv, Phase, Early, FarmAll, RangeInv
    <3> QED
      BY <3>1 DEF HasLeft, Left
  <2> QED
    BY <2>1 DEF NoneLeft
<1>2. (OrderAll /\ RasterDone) => NoneLeft
  BY <1>1
<1> QED
  BY <1>2, OrderAlways, PTL

(* daemon.c:244, 267: wait() takes any child, and it takes the one the      *)
(* daemon told to end, so that the pipe that is removed is that of a worker *)
(* that has ended.                                                          *)
THEOREM RliWaitReturnsTarget == Orderly => (Spec => WaitReturnsTarget)
<1> SUFFICES ASSUME Orderly PROVE Spec => WaitReturnsTarget
  OBVIOUS
<1> DEFINE Reaps == reaped' # reaped => reaped' = reaped \cup {target}
<1>1. ASSUME OrderAll, Next PROVE Reaps
  <2>1. CASE Wait
    BY <1>1, <2>1, ReapsTarget DEF OrderAll, OrderInv
  <2>2. Next /\ ~Wait => reaped' = reaped
    BY DEF Next, Daemon, Worker, Fork, OpenCommand, OpenReport, Schedule, Body, Drain, Drained,
       EndIdle, Return, StartWorker, WantReport, TakeJob, Answer, StartFails, Die, daemon
  <2> QED
    BY <1>1, <2>1, <2>2
<1>2. (OrderAll /\ RasterDone) /\ [Next]_vars => [Reaps]_vars
  BY <1>1
<1> HIDE DEF Reaps
<1>3. Spec => [][Reaps]_vars
  BY <1>2, OrderAlways, PTL DEF Spec
<1> QED
  BY <1>3 DEF WaitReturnsTarget, Reaps

(* daemon.c:716-748: in a raster made from a moving window every cell       *)
(* shows the result of its own area, for any number of columns and workers. *)
THEOREM RliRasterShowsResults == Orderly => (Spec => []RasterShowsResults)
<1> SUFFICES ASSUME Orderly PROVE Spec => []RasterShowsResults
  OBVIOUS
<1>1. (OrderAll /\ RasterDone) => RasterShowsResults
  BY DEF RasterDone, RasterShowsResults, DueAreas
<1> QED
  BY <1>1, OrderAlways, PTL

-----------------------------------------------------------------------------
(* The refinement of RliFarm: a report of an area that is due is a Write,   *)
(* the end of calculateIndex is Return, and every other step stutters.      *)
LEMMA FarmWrites ==
  ASSUME OrderAll, RliDaemonAssumption, Body \/ Drain, pc' # "returned"
  PROVE  (\E a \in DueAreas : Farm!Write(a)) \/ out' = out
<1>1. /\ Receive /\ Output(doneJob') /\ setup' = setup
      /\ pc = "body" \/ (pc = "drain" /\ i > 0)
  BY DEF Body, Drain
<1>2. PICK m \in Report : /\ m = doneJob' /\ m.aid \in Given /\ m.aid \in Areas /\ out[m.aid] = 0
                          /\ m.type = "DONE" <=> m.aid \notin setup.bad
  BY <1>1, ReadsResult
<1>3. \/ out' = out
      \/ /\ setup.mvWin => m.type = "DONE"
         /\ out' = [out EXCEPT ![m.aid] = out[m.aid] + 1]
  BY <1>1, <1>2 DEF Output
<1>4. CASE /\ setup.mvWin => m.type = "DONE"
           /\ out' = [out EXCEPT ![m.aid] = out[m.aid] + 1]
  <2>1. m.aid \in DueAreas
    BY <1>2, <1>4 DEF DueAreas
  <2>2. out' = [out EXCEPT ![m.aid] = 1]
    BY <1>2, <1>4
  <2>3. pc # "returned"
    BY <1>1
  <2>4. UNCHANGED <<DueAreas, pc = "returned">>
    BY <1>1, <2>3 DEF DueAreas, Given
  <2>5. Farm!Write(m.aid)
    BY <1>2, <2>2, <2>3, <2>4 DEF Farm!Write, DueAreas
  <2> QED
    BY <2>1, <2>5
<1> QED
  BY <1>3, <1>4

LEMMA FarmReturns ==
  ASSUME OrderAll, RliDaemonAssumption, Return PROVE Farm!Return
<1>1. /\ pc = "idle" /\ i = WORKERS /\ pc' = "returned" /\ out' = out /\ setup' = setup
      /\ setup \in AnySetup
  BY DEF Return, OrderAll, FarmAll, FarmInv, Typed
<1>2. \A a \in DueAreas : out[a] = 1
  <2> TAKE a \in DueAreas
  <2>1. out[a] > 0 /\ a \in Areas
    BY <1>1, AllDone, DueAreAreas, RliDaemonAssumption DEF HasResult
  <2>2. out[a] \in Nat /\ out[a] <= 1
    BY <1>1, <2>1 DEF OrderAll, OrderInv, Phase, FarmAll, FarmInv, Typed, AtMostOnce
  <2> QED
    BY <2>1, <2>2
<1>3. UNCHANGED <<DueAreas, out>>
  BY <1>1 DEF DueAreas, Given
<1> QED
  BY <1>1, <1>2, <1>3 DEF Farm!Return, DueAreas

LEMMA FarmStutters ==
  ASSUME OrderAll, [Next]_vars, ~(Body \/ Drain), ~Return
  PROVE  out' = out /\ setup' = setup /\ (pc' = "returned" <=> pc = "returned")
<1>1. CASE UNCHANGED vars
  BY <1>1 DEF vars
<1>2. CASE Fork \/ OpenCommand \/ OpenReport \/ Drained \/ Wait
  BY <1>2 DEF Fork, OpenCommand, OpenReport, Drained, Wait, output
<1>3. CASE Schedule \/ EndIdle
  BY <1>3 DEF Schedule, EndIdle, Send, output
<1>4. ASSUME NEW w \in Workers, Worker(w) \/ StartFails(w) \/ Die(w)
      PROVE  out' = out /\ setup' = setup /\ pc' = pc
  BY <1>4 DEF Worker, StartWorker, WantReport, TakeJob, Answer, StartFails, Die, daemon, output
<1> QED
  BY <1>1, <1>2, <1>3, <1>4 DEF Next, Daemon

(* daemon.c:160-289: calculateIndex applies the index once to every area    *)
(* of the setup file, puts each result that is due in the output once, and  *)
(* returns only then, for any number of workers and areas.                  *)
THEOREM RliIsFarm == Orderly => (Spec => Farm!Safely)
<1> SUFFICES ASSUME Orderly PROVE Spec => Farm!Safely
  OBVIOUS
<1> DEFINE Shown == <<DueAreas, out, pc = "returned">>
<1>1. ASSUME Init PROVE Farm!Init
  <2>1. setup \in AnySetup
    BY <1>1, RliDaemonAssumption DEF Init, RliDaemonAssumption
  <2>2. DueAreas \subseteq Areas
    BY <2>1, DueAreAreas, RliDaemonAssumption
  <2> QED
    BY <1>1, <2>2 DEF Init, Farm!Init, DueAreas
<1>2. ASSUME OrderAll, [Next]_vars PROVE Farm!Next \/ UNCHANGED Shown
  <2>1. CASE Body \/ Drain
    <3>1. setup' = setup /\ pc # "returned" /\ pc' # "returned"
      BY <2>1 DEF Body, Drain, Send
    <3>2. (\E a \in DueAreas : Farm!Write(a)) \/ out' = out
      BY <1>2, <2>1, <3>1, FarmWrites, RliDaemonAssumption
    <3>3. UNCHANGED <<DueAreas, pc = "returned">>
      BY <3>1 DEF DueAreas, Given
    <3> QED
      BY <3>2, <3>3 DEF Farm!Next, DueAreas
  <2>2. CASE Return
    BY <1>2, <2>2, FarmReturns, RliDaemonAssumption DEF Farm!Next
  <2>3. CASE ~(Body \/ Drain) /\ ~Return
    <3>1. out' = out /\ setup' = setup /\ (pc' = "returned" <=> pc = "returned")
      BY <1>2, <2>3, FarmStutters
    <3>2. DueAreas' = DueAreas /\ (pc = "returned")' = (pc = "returned")
      BY <3>1 DEF DueAreas, Given
    <3> QED
      BY <3>1, <3>2
  <2> QED
    BY <2>1, <2>2, <2>3
<1>3. (OrderAll /\ RasterDone) /\ [Next]_vars => [Farm!Next]_Shown
  BY <1>2
<1>4. Spec => Farm!Init /\ [][Farm!Next]_Shown
  BY <1>1, <1>3, OrderAlways, PTL DEF Spec
<1> QED
  BY <1>4 DEF Farm!Safely, DueAreas
=============================================================================
