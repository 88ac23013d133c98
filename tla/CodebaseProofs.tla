---------------------------- MODULE CodebaseProofs ----------------------------
(***************************************************************************)
(* Proofs about Codebase, for any clients, projects, calls, edits and runs *)
(* of the program: the types, that snapshots never go back, which of them  *)
(* is the default, and that the status tracker shows what happened.        *)
(***************************************************************************)
EXTENDS Codebase, Integers, TLAPS

Letter == Call \union {Message(op) : op \in {"start_refresh", "refresh_result", "down"}}
JobType == [step : {"receive", "scan", "load", "persist", "publish", "prove"},
            op : {"none", "parse", "query", "refresh"}, project : Project \union {NoProject},
            client : Client \union {Nobody}, call : Nat, token : Token \union {NoToken},
            scan : Version \union {None}]
WorkerType == [step : {"none", "spawned", "scan", "scanned", "sent", "dead"},
               scan : Version \union {None}, token : Token \union {NoToken},
               result : {"none", "ok", "error", "told_ok", "told_failed"}]

SnapshotTypes ==
  /\ tree \in [Project -> Version] /\ disk \in Version \union {None}
  /\ caches \in [Project -> Version \union {None}]
  /\ current \in Project \union {NoProject} /\ parsed \in Project \union {NoProject}
  /\ refresh \in BOOLEAN /\ killed \in BOOLEAN /\ starts \in 1 .. MaxStarts
CountTypes ==
  /\ calls \in 0 .. MaxCalls /\ waiting \in [Client -> 0 .. calls]
  /\ ops \in 0 .. MaxOps
  /\ outcome \in [Token -> {"none", "running", "succeeded", "failed", "superseded", "crashed"}]
Types ==
  /\ SnapshotTypes /\ CountTypes
  /\ inbox \in Seq(Letter) /\ job \in JobType /\ worker \in WorkerType

\* Nothing is newer than the sources, and nothing served newer than the database.
Fresh ==
  /\ disk <= tree[Home] /\ caches[Home] <= disk /\ worker.scan <= tree[Home]
  /\ \A p \in Project : caches[p] <= tree[p]

\* A scan on its way into the cache is not older than what it is to replace.
Jobs ==
  /\ job.op \in {"parse", "refresh"} <=> job.step \in {"scan", "load", "persist", "publish"}
  /\ job.op = "query" <=> job.step = "prove"
  /\ job.op \in {"parse", "refresh"} => job.project \in Project
  /\ job.op = "refresh" => parsed = NoProject
  /\ job.step = "persist" => job.project = Home
  /\ job.step \in {"load", "persist", "publish"} =>
       /\ caches[job.project] <= job.scan /\ job.scan <= tree[job.project]
       /\ job.project = Home => disk <= job.scan
  /\ job.step = "publish" /\ job.project = Home => disk = job.scan

Recent == disk <= worker.scan /\ caches[Home] <= worker.scan

\* While the cache has its refresh job no parse has begun, so what the worker
\* has scanned is still the latest.
Refreshing ==
  /\ refresh => /\ job.op \notin {"parse", "refresh"} /\ parsed = NoProject
                /\ worker.result \notin {"told_ok", "told_failed"}
  /\ refresh /\ worker.step = "scanned" => Recent

\* The message that starts the refresh comes before everything else.
Unstarted == job = NotWorking /\ parsed = NoProject /\ refresh = FALSE /\ worker = NoWorker

Inbox ==
  /\ \A i \in DOMAIN inbox : inbox[i].op = "start_refresh" => i = 1 /\ Unstarted
  /\ \A i \in DOMAIN inbox : inbox[i].op = "refresh_result" =>
       worker.step # "none" /\ (refresh => Recent)

\* Operations begun for clients: each has taken a call of its own.
Begun == IF worker.token = NoToken THEN ops ELSE ops - 1

Counting ==
  /\ Begun <= calls
  /\ worker.step \in {"none", "spawned"} => worker.token = NoToken
  /\ \A i \in DOMAIN inbox : inbox[i].op \in Request =>
       Begun < inbox[i].call /\ inbox[i].call <= calls
  /\ \A i, j \in DOMAIN inbox :
       i < j /\ inbox[i].op \in Request /\ inbox[j].op \in Request => inbox[i].call < inbox[j].call

IInv == /\ Types /\ Fresh /\ Jobs /\ Refreshing /\ Inbox /\ Counting
        /\ CurrentIsLastParsed /\ RefreshingIsLive

\* A step of SnapshotsNeverGoBack.
Forward ==
  /\ \A p \in Project : caches'[p] = None \/ caches'[p] >= caches[p]
  /\ disk' = None \/ disk' >= disk

Kept == IInv' /\ Forward

------------------------------------------------------------------------------
(* Facts about values *)

LEMMA Bounds ==
  /\ MaxEdits \in Nat /\ MaxCalls \in Nat /\ MaxStarts \in Nat \ {0}
  /\ Home \in Project /\ NoProject \notin Project
  /\ Version \subseteq Nat /\ Token \subseteq Nat /\ None = 0 /\ NoToken = 0 /\ MaxOps = MaxCalls + 1
  BY CodebaseAssumption DEF Version, Token, None, NoToken, MaxOps

LEMMA Values ==
  ASSUME Types
  PROVE  /\ disk \in Nat /\ (\A p \in Project : caches[p] \in Nat /\ tree[p] \in Nat)
         /\ job.scan \in Nat /\ worker.scan \in Nat /\ worker.token \in Nat
         /\ ops \in Nat /\ calls \in Nat /\ calls <= MaxCalls
<1>1. (\A v \in Version \union {None} : v \in Nat) /\ (\A t \in Token \union {NoToken} : t \in Nat)
  BY Bounds
<1>2. disk \in Nat /\ \A p \in Project : caches[p] \in Nat /\ tree[p] \in Nat
  BY <1>1 DEF Types, SnapshotTypes
<1>3. job.scan \in Nat
  BY <1>1 DEF Types, JobType
<1>4. worker.scan \in Nat /\ worker.token \in Nat
  BY <1>1 DEF Types, WorkerType
<1>5. ops \in Nat /\ calls \in Nat /\ calls <= MaxCalls
  BY Bounds DEF Types, CountTypes
<1>6. QED
  BY <1>2, <1>3, <1>4, <1>5

LEMMA LetterFields ==
  ASSUME NEW m \in Letter
  PROVE  /\ m.op \in Request \union {"start_refresh", "refresh_result", "down"}
         /\ m.op \in Request => /\ m \in Call /\ m.project \in Project \union {NoProject}
                                /\ m.client \in Client /\ m.call \in 1 .. MaxCalls
  BY DEF Letter, Call, Message, Request

------------------------------------------------------------------------------
(* The mailbox *)

\* A mailbox that has lost its first message, and maybe others.
Later(q) ==
  /\ q \in Seq(Letter)
  /\ \A i \in DOMAIN q : \E j \in DOMAIN inbox : 1 < j /\ q[i] = inbox[j]
  /\ \A i, k \in DOMAIN q : i < k =>
       \E j, l \in DOMAIN inbox : j < l /\ q[i] = inbox[j] /\ q[k] = inbox[l]

LEMMA TailIsLater ==
  ASSUME inbox \in Seq(Letter), inbox # << >>
  PROVE  /\ Later(Tail(inbox))
         /\ 1 \in DOMAIN inbox /\ Head(inbox) = inbox[1]
         /\ \A j \in DOMAIN inbox : j # 1 => \E i \in DOMAIN Tail(inbox) : Tail(inbox)[i] = inbox[j]
<1> DEFINE q == Tail(inbox)
<1>1. /\ q \in Seq(Letter) /\ Len(q) = Len(inbox) - 1 /\ Len(inbox) \in Nat /\ Len(inbox) > 0
      /\ \A i \in 1 .. Len(q) : q[i] = inbox[i + 1]
      /\ DOMAIN q = 1 .. Len(q) /\ DOMAIN inbox = 1 .. Len(inbox) /\ Head(inbox) = inbox[1]
  OBVIOUS
<1> HIDE DEF q
<1>2. \A i \in DOMAIN q : i + 1 \in DOMAIN inbox /\ 1 < i + 1 /\ q[i] = inbox[i + 1]
  BY <1>1
<1>3. Later(q)
  BY <1>1, <1>2 DEF Later
<1>4. \A j \in DOMAIN inbox : j # 1 => j - 1 \in DOMAIN q /\ q[j - 1] = inbox[j]
  <2>1. TAKE j \in DOMAIN inbox
  <2>2. HAVE j # 1
  <2>3. j - 1 \in 1 .. Len(q) /\ (j - 1) + 1 = j
    BY <1>1, <2>2
  <2>4. QED
    BY <1>1, <2>3
<1>5. 1 \in DOMAIN inbox /\ Head(inbox) = inbox[1]
  BY <1>1
<1>6. QED
  BY <1>3, <1>4, <1>5 DEF q

\* Without one message more.
LEMMA FlushedIsLater ==
  ASSUME inbox \in Seq(Letter), inbox # << >>
  PROVE  Later(Flushed(Tail(inbox)))
<1> DEFINE q == Tail(inbox)
<1>1. Later(q)
  BY TailIsLater
<1>2. CASE ~ \E i \in DOMAIN q : q[i].op = "down"
  BY <1>1, <1>2 DEF Flushed
<1>3. CASE \E i \in DOMAIN q : q[i].op = "down"
  <2> HIDE DEF q
  <2>1. PICK k \in DOMAIN q : Flushed(q) = SubSeq(q, 1, k - 1) \o SubSeq(q, k + 1, Len(q))
    BY <1>3 DEF Flushed
  <2>2. q \in Seq(Letter)
    BY <1>1 DEF Later
  <2> DEFINE front == SubSeq(q, 1, k - 1)
             back == SubSeq(q, k + 1, Len(q))
             r == front \o back
  <2>3. Len(q) \in Nat /\ k \in 1 .. Len(q) /\ DOMAIN q = 1 .. Len(q)
    BY <2>2
  <2>4. front \in Seq(Letter) /\ Len(front) = k - 1 /\ \A i \in 1 .. (k - 1) : front[i] = q[i]
    BY <2>2, <2>3
  <2>5. back \in Seq(Letter) /\ Len(back) = Len(q) - k
        /\ \A i \in 1 .. (Len(q) - k) : back[i] = q[k + i]
    BY <2>2, <2>3
  <2> HIDE DEF front, back
  <2>6. r \in Seq(Letter) /\ Len(r) = Len(q) - 1 /\ DOMAIN r = 1 .. (Len(q) - 1)
    <3>1. r \in Seq(Letter)
      BY <2>4, <2>5
    <3>2. Len(r) = Len(front) + Len(back)
      BY <2>4, <2>5
    <3>3. Len(r) = Len(q) - 1
      BY <2>3, <2>4, <2>5, <3>2
    <3> HIDE DEF r
    <3>4. QED
      BY <3>1, <3>3
  <2>7. \A i \in 1 .. (k - 1) : r[i] = q[i]
    BY <2>3, <2>4, <2>5
  <2>8. \A i \in k .. (Len(q) - 1) : r[i] = q[i + 1]
    <3>1. TAKE i \in k .. (Len(q) - 1)
    <3>2. r[i] = back[i - (k - 1)]
      BY <2>3, <2>4, <2>5
    <3>3. i - (k - 1) \in 1 .. (Len(q) - k) /\ k + (i - (k - 1)) = i + 1
      BY <2>3
    <3>4. QED
      BY <2>5, <3>2, <3>3
  <2> HIDE DEF r
  <2>9. \A i \in DOMAIN r : \E j \in DOMAIN q : r[i] = q[j] /\ j \in {i, i + 1} /\ (j = i <=> i < k)
    <3>1. TAKE i \in DOMAIN r
    <3>2. CASE i < k
      <4>1. i \in 1 .. (k - 1) /\ i \in DOMAIN q
        BY <2>3, <2>6, <3>2
      <4>2. QED
        BY <2>7, <3>2, <4>1
    <3>3. CASE ~(i < k)
      <4>1. i \in k .. (Len(q) - 1) /\ i + 1 \in DOMAIN q /\ i + 1 # i
        BY <2>3, <2>6, <3>3
      <4>2. QED
        BY <2>8, <3>3, <4>1
    <3>4. QED
      BY <3>2, <3>3
  <2>10. \A i, l \in DOMAIN r : i < l => \E x, y \in DOMAIN q : x < y /\ r[i] = q[x] /\ r[l] = q[y]
    <3>1. ASSUME NEW i \in DOMAIN r, NEW l \in DOMAIN r, i < l
          PROVE  \E x, y \in DOMAIN q : x < y /\ r[i] = q[x] /\ r[l] = q[y]
      <4>1. PICK x \in DOMAIN q : r[i] = q[x] /\ x \in {i, i + 1} /\ (x = i <=> i < k)
        BY <2>9
      <4>2. PICK y \in DOMAIN q : r[l] = q[y] /\ y \in {l, l + 1} /\ (y = l <=> l < k)
        BY <2>9
      <4>3. x < y
        BY <2>3, <2>6, <3>1, <4>1, <4>2
      <4>4. QED
        BY <4>1, <4>2, <4>3
    <3>2. QED
      BY <3>1
  <2>11. Later(r)
    <3>1. \A i \in DOMAIN r : \E j \in DOMAIN inbox : 1 < j /\ r[i] = inbox[j]
      BY <1>1, <2>9 DEF Later
    <3>2. \A i, l \in DOMAIN r : i < l =>
            \E x, y \in DOMAIN inbox : x < y /\ r[i] = inbox[x] /\ r[l] = inbox[y]
      <4>1. ASSUME NEW i \in DOMAIN r, NEW l \in DOMAIN r, i < l
            PROVE  \E x, y \in DOMAIN inbox : x < y /\ r[i] = inbox[x] /\ r[l] = inbox[y]
        <5>1. PICK x \in DOMAIN q, y \in DOMAIN q : x < y /\ r[i] = q[x] /\ r[l] = q[y]
          BY <2>10, <4>1
        <5>2. QED
          BY <1>1, <5>1 DEF Later
      <4>2. QED
        BY <4>1
    <3>3. QED
      BY <2>6, <3>1, <3>2 DEF Later
  <2>12. QED
    BY <2>1, <2>11 DEF r, front, back, q
<1>4. QED
  BY <1>2, <1>3
------------------------------------------------------------------------------
(* Parts of the invariant that a step leaves alone *)

\* What is said of the messages, when the first has been taken.
LEMMA Taken ==
  ASSUME IInv, inbox # << >>, Later(inbox')
  PROVE  /\ \A i \in DOMAIN inbox' : inbox'[i].op # "start_refresh"
         /\ \A i \in DOMAIN inbox' : inbox'[i].op = "refresh_result" =>
              worker.step # "none" /\ (refresh => Recent)
         /\ \A i \in DOMAIN inbox' : inbox'[i].op \in Request =>
              /\ Begun < inbox'[i].call /\ inbox'[i].call <= calls
              /\ Head(inbox).op \in Request => Head(inbox).call < inbox'[i].call
         /\ \A i, j \in DOMAIN inbox' :
              i < j /\ inbox'[i].op \in Request /\ inbox'[j].op \in Request =>
                inbox'[i].call < inbox'[j].call
<1>1. \A i \in DOMAIN inbox' : \E j \in DOMAIN inbox : 1 < j /\ inbox'[i] = inbox[j]
  BY DEF Later
<1>2. \A i, k \in DOMAIN inbox' : i < k =>
        \E j, l \in DOMAIN inbox : j < l /\ inbox'[i] = inbox[j] /\ inbox'[k] = inbox[l]
  BY DEF Later
<1>3. 1 \in DOMAIN inbox /\ Head(inbox) = inbox[1]
  BY TailIsLater DEF IInv, Types
<1>4. ASSUME NEW i \in DOMAIN inbox'
      PROVE  /\ inbox'[i].op # "start_refresh"
             /\ inbox'[i].op = "refresh_result" => worker.step # "none" /\ (refresh => Recent)
             /\ inbox'[i].op \in Request =>
                  /\ Begun < inbox'[i].call /\ inbox'[i].call <= calls
                  /\ Head(inbox).op \in Request => Head(inbox).call < inbox'[i].call
  <2>1. PICK j \in DOMAIN inbox : 1 < j /\ inbox'[i] = inbox[j]
    BY <1>1
  <2>2. inbox[j].op # "start_refresh"
    BY <2>1 DEF IInv, Inbox
  <2>3. inbox[j].op = "refresh_result" => worker.step # "none" /\ (refresh => Recent)
    BY DEF IInv, Inbox
  <2>4. inbox[j].op \in Request =>
          /\ Begun < inbox[j].call /\ inbox[j].call <= calls
          /\ Head(inbox).op \in Request => Head(inbox).call < inbox[j].call
    BY <1>3, <2>1 DEF IInv, Counting
  <2>5. QED
    BY <2>1, <2>2, <2>3, <2>4
<1>5. ASSUME NEW i \in DOMAIN inbox', NEW k \in DOMAIN inbox', i < k,
             inbox'[i].op \in Request, inbox'[k].op \in Request
      PROVE  inbox'[i].call < inbox'[k].call
  <2>1. PICK j \in DOMAIN inbox, l \in DOMAIN inbox :
          j < l /\ inbox'[i] = inbox[j] /\ inbox'[k] = inbox[l]
    BY <1>2, <1>5
  <2>2. QED
    BY <1>5, <2>1 DEF IInv, Counting
<1>6. QED
  BY <1>4, <1>5

\* What is left in the mailbox when its first message is taken and the job changes.
LEMMA TookInbox ==
  ASSUME IInv, inbox # << >>, Later(inbox'),
         worker'.step = worker.step, refresh' => refresh /\ UNCHANGED <<disk, caches>>,
         worker'.scan = worker.scan
  PROVE  Inbox'
<1>1. \A i \in DOMAIN inbox' : inbox'[i].op # "start_refresh"
  BY Taken
<1>2. \A i \in DOMAIN inbox' : inbox'[i].op = "refresh_result" =>
        worker.step # "none" /\ (refresh => Recent)
  BY Taken
<1>3. refresh' /\ Recent => Recent'
  BY DEF Recent
<1>4. QED
  BY <1>1, <1>2, <1>3 DEF Inbox

LEMMA TookCounting ==
  ASSUME IInv, inbox # << >>, Later(inbox'), UNCHANGED <<calls, ops>>,
         worker'.step = worker.step, worker'.token = worker.token
  PROVE  Counting'
<1>1. Begun' = Begun
  BY DEF Begun
<1>2. QED
  BY <1>1, Taken DEF Counting, IInv

\* A message at the end of the mailbox.
LEMMA Sent ==
  ASSUME Types, NEW m \in Letter, inbox' = Append(inbox, m)
  PROVE  /\ inbox' \in Seq(Letter) /\ Len(inbox) + 1 \in DOMAIN inbox'
         /\ inbox'[Len(inbox) + 1] = m
         /\ \A i \in DOMAIN inbox : i \in DOMAIN inbox' /\ inbox'[i] = inbox[i] /\ i < Len(inbox) + 1
         /\ \A i \in DOMAIN inbox' : i \in DOMAIN inbox \/ i = Len(inbox) + 1
<1>1. inbox \in Seq(Letter)
  BY DEF Types
<1>2. QED
  BY <1>1

LEMMA SameCounting ==
  ASSUME IInv, UNCHANGED <<calls, ops, inbox>>,
         worker'.step = worker.step, worker'.token = worker.token
  PROVE  Counting'
<1>1. Begun' = Begun
  BY DEF Begun
<1>2. QED
  BY <1>1 DEF Counting, IInv

LEMMA SameDisk ==
  ASSUME IInv, UNCHANGED <<disk, caches>>
  PROVE  Forward
  BY Values DEF IInv, Forward

LEMMA StillLive ==
  ASSUME IInv, UNCHANGED <<worker, inbox>>, refresh' => refresh
  PROVE  RefreshingIsLive'
  BY DEF IInv, RefreshingIsLive, Alive

\* The message taken was no 'DOWN'.
LEMMA LiveBehindTail ==
  ASSUME IInv, inbox # << >>, inbox' = Tail(inbox), Head(inbox).op # "down",
         worker' = worker, refresh' => refresh
  PROVE  RefreshingIsLive'
<1>1. inbox \in Seq(Letter)
  BY DEF IInv, Types
<1>2. ASSUME NEW j \in DOMAIN inbox, inbox[j].op = "down"
      PROVE  \E i \in DOMAIN inbox' : inbox'[i].op = "down"
  <2>1. j # 1
    BY <1>1, <1>2, TailIsLater
  <2>2. QED
    BY <1>1, <1>2, <2>1, TailIsLater
<1>3. QED
  BY <1>2 DEF IInv, RefreshingIsLive, Alive

------------------------------------------------------------------------------
(* Starts *)

LEMMA FirstMailIs ==
  ASSUME NEW configured \in BOOLEAN
  PROVE  /\ FirstMail(configured) \in Seq(Letter)
         /\ \A i \in DOMAIN FirstMail(configured) :
              i = 1 /\ FirstMail(configured)[i].op = "start_refresh"
<1>1. Message("start_refresh") \in Letter /\ Message("start_refresh").op = "start_refresh"
  BY DEF Letter, Message
<1>2. CASE configured
  <2>1. FirstMail(configured) = <<Message("start_refresh")>>
    BY <1>2 DEF FirstMail
  <2>2. QED
    BY <1>1, <2>1
<1>3. CASE ~configured
  <2>1. FirstMail(configured) = << >>
    BY <1>3 DEF FirstMail
  <2>2. QED
    BY <2>1
<1>4. QED
  BY <1>2, <1>3

LEMMA NothingYet ==
  /\ NotWorking \in JobType /\ NoWorker \in WorkerType
  /\ NotWorking.step = "receive" /\ NotWorking.op = "none"
  /\ NoWorker.step = "none" /\ NoWorker.scan = None /\ NoWorker.token = NoToken
  /\ NoWorker.result = "none"
  BY Bounds DEF NotWorking, NoWorker, JobType, WorkerType

LEMMA InitInv == Init => IInv
<1> SUFFICES ASSUME Init PROVE IInv
  OBVIOUS
<1>1. PICK loaded \in {None, disk}, configured \in BOOLEAN :
        /\ caches = Served(loaded) /\ current = (IF loaded = None THEN NoProject ELSE Home)
        /\ inbox = FirstMail(configured)
  BY DEF Init
<1>2. 1 \in Version /\ 0 \in 0 .. MaxCalls /\ 0 \in 0 .. MaxOps /\ 1 \in 1 .. MaxStarts
  BY Bounds DEF Version
<1>3. Types
  <2>1. SnapshotTypes
    BY <1>1, <1>2, Bounds DEF Init, SnapshotTypes, Served
  <2>2. CountTypes
    BY <1>2 DEF Init, CountTypes, None
  <2>3. QED
    BY <1>1, <2>1, <2>2, FirstMailIs, NothingYet DEF Types, Init
<1>4. Fresh
  BY <1>1, Bounds, NothingYet DEF Init, Fresh, Served
<1>5. Jobs /\ Refreshing /\ CurrentIsLastParsed /\ RefreshingIsLive
  BY NothingYet DEF Init, Jobs, Refreshing, CurrentIsLastParsed, RefreshingIsLive
<1>6. Inbox
  BY <1>1, FirstMailIs DEF Init, Inbox, Unstarted
<1>7. Counting
  BY <1>1, FirstMailIs, NothingYet, Bounds DEF Init, Counting, Begun, Request
<1>8. QED
  BY <1>3, <1>4, <1>5, <1>6, <1>7 DEF IInv

LEMMA RestartInv == ASSUME IInv, Restart PROVE Kept
<1>1. PICK loaded \in {None, disk'}, configured \in BOOLEAN : Boot(loaded, configured)
  BY DEF Restart
<1>2. tree' = tree /\ starts' = starts + 1 /\ starts < MaxStarts
  BY DEF Restart
<1>3. /\ disk' \in Version \union {None} /\ disk' <= tree[Home]
      /\ disk' = None \/ disk' >= disk
  <2>1. CASE job.step = "persist" /\ job.project = Home
    BY <2>1, Bounds, Values DEF Restart, IInv, Types, SnapshotTypes, JobType, Jobs, Fresh
  <2>2. CASE ~(job.step = "persist" /\ job.project = Home)
    BY <2>2, Bounds, Values DEF Restart, IInv, Types, SnapshotTypes, Fresh
  <2>3. QED
    BY <2>1, <2>2
<1>4. caches' = [p \in Project |-> IF p = Home THEN loaded ELSE None]
  BY <1>1 DEF Boot, Served
<1>5. Types'
  <2>1. SnapshotTypes'
    <3>1. tree' \in [Project -> Version] /\ starts' \in 1 .. MaxStarts
      BY <1>2, Bounds DEF IInv, Types, SnapshotTypes
    <3>2. caches' \in [Project -> Version \union {None}]
      BY <1>3, <1>4
    <3>3. /\ current' \in Project \union {NoProject} /\ parsed' = NoProject
          /\ refresh' = FALSE /\ killed' = FALSE
      BY <1>1, Bounds DEF Boot
    <3>4. QED
      BY <1>3, <3>1, <3>2, <3>3 DEF SnapshotTypes
  <2>2. CountTypes'
    BY <1>1, Bounds DEF Boot, CountTypes
  <2>3. inbox' \in Seq(Letter) /\ job' \in JobType /\ worker' \in WorkerType
    BY <1>1, FirstMailIs, NothingYet DEF Boot
  <2>4. QED
    BY <2>1, <2>2, <2>3 DEF Types
<1>6. Fresh'
  <2>1. tree[Home] \in Nat /\ \A p \in Project : tree[p] \in Nat
    BY Values, Bounds DEF IInv
  <2>2. worker'.scan = 0
    BY <1>1, NothingYet, Bounds DEF Boot
  <2>3. disk' \in Nat
    BY <1>3, Bounds
  <2>4. caches'[Home] \in {0, disk'} /\ \A p \in Project : p = Home \/ caches'[p] = 0
    BY <1>4, Bounds
  <2>5. QED
    BY <1>2, <1>3, <2>1, <2>2, <2>3, <2>4 DEF Fresh
<1>7. Jobs' /\ Refreshing' /\ CurrentIsLastParsed' /\ RefreshingIsLive'
  <2>1. job' = NotWorking /\ refresh' = FALSE /\ parsed' = NoProject
    BY <1>1 DEF Boot
  <2>2. QED
    BY <2>1, NothingYet DEF Jobs, Refreshing, CurrentIsLastParsed, RefreshingIsLive
<1>8. Inbox'
  BY <1>1, FirstMailIs DEF Boot, Inbox, Unstarted
<1>9. Counting'
  <2>1. /\ ops' = 0 /\ calls' = 0 /\ worker'.token = NoToken
        /\ \A i \in DOMAIN inbox' : inbox'[i].op = "start_refresh"
    BY <1>1, FirstMailIs, NothingYet DEF Boot
  <2>2. QED
    BY <2>1 DEF Counting, Begun, Request
<1>10. Forward
  <2>1. disk \in Nat /\ caches[Home] \in Nat /\ disk' \in Nat /\ caches[Home] <= disk
    BY <1>3, Bounds, Values DEF IInv, Fresh
  <2>2. \A p \in Project : p = Home \/ caches'[p] = None
    BY <1>4
  <2>3. caches'[Home] = None \/ caches'[Home] = disk'
    BY <1>4, Bounds
  <2>4. QED
    BY <1>3, <2>1, <2>2, <2>3, Bounds DEF Forward
<1>11. QED
  BY <1>5, <1>6, <1>7, <1>8, <1>9, <1>10 DEF IInv, Kept
------------------------------------------------------------------------------
(* Editors, clients, the tracker *)

LEMMA StutterInv ==
  ASSUME IInv, UNCHANGED <<store, cache, inbox, job, refresher, clients, history, starts>>
  PROVE  Kept
<1> USE DEF store, cache, refresher, clients, history
<1>1. Types'
  BY DEF IInv, Types, SnapshotTypes, CountTypes
<1>2. Fresh' /\ Jobs' /\ Refreshing' /\ CurrentIsLastParsed' /\ RefreshingIsLive'
  BY DEF IInv, Fresh, Jobs, Refreshing, Recent, CurrentIsLastParsed, RefreshingIsLive, Alive
<1>3. Inbox'
  BY DEF IInv, Inbox, Unstarted, Recent
<1>4. QED
  BY <1>1, <1>2, <1>3, SameCounting, SameDisk DEF IInv, Kept

LEMMA EditInv == ASSUME IInv, NEW p \in Project, Edit(p) PROVE Kept
<1> USE DEF cache, refresher, clients, history
<1>1. /\ tree' = [tree EXCEPT ![p] = @ + 1] /\ tree[p] <= MaxEdits
      /\ UNCHANGED <<disk, cache, inbox, job, refresher, clients, history, starts>>
  BY DEF Edit
<1>2. tree[p] \in Nat /\ tree[p] + 1 \in Version
  BY <1>1, Values, Bounds DEF IInv, Version
<1>3. Types'
  <2>1. tree' \in [Project -> Version]
    BY <1>1, <1>2 DEF IInv, Types, SnapshotTypes
  <2>2. QED
    BY <1>1, <2>1 DEF IInv, Types, SnapshotTypes, CountTypes
<1>4. \A q \in Project : tree[q] \in Nat /\ tree'[q] \in Nat /\ tree[q] <= tree'[q]
  BY <1>1, <1>2, Values DEF IInv, Types, SnapshotTypes
<1>5. Fresh'
  <2>1. disk \in Nat /\ worker.scan \in Nat /\ \A q \in Project : caches[q] \in Nat
    BY Values DEF IInv
  <2>2. QED
    BY <1>1, <1>4, <2>1, Bounds DEF IInv, Fresh
<1>6. Jobs'
  <2>1. job.scan \in Nat
    BY Values DEF IInv
  <2>2. job.step \in {"load", "persist", "publish"} => job.project \in Project
    BY DEF IInv, Jobs
  <2>3. job.step \in {"load", "persist", "publish"} => job.scan <= tree'[job.project]
    BY <1>4, <2>1, <2>2 DEF IInv, Jobs
  <2>4. QED
    BY <1>1, <2>3 DEF IInv, Jobs
<1>7. Refreshing' /\ CurrentIsLastParsed' /\ RefreshingIsLive' /\ Inbox'
  BY <1>1 DEF IInv, Refreshing, Recent, CurrentIsLastParsed, RefreshingIsLive, Alive, Inbox, Unstarted
<1>8. QED
  BY <1>1, <1>3, <1>5, <1>6, <1>7, SameCounting, SameDisk DEF IInv, Kept

\* A message is added that starts nothing.
LEMMA SentInv ==
  ASSUME IInv, NEW m \in Letter, inbox' = Append(inbox, m), m.op # "start_refresh",
         m.op = "refresh_result" => worker'.step # "none" /\ (refresh => Recent),
         worker.step # "none" => worker'.step # "none",
         worker # NoWorker \/ worker' = worker, worker'.scan = worker.scan,
         UNCHANGED <<disk, caches, refresh, job, parsed>>
  PROVE  Inbox'
<1>1. \A i \in DOMAIN inbox : i \in DOMAIN inbox' /\ inbox'[i] = inbox[i]
  BY Sent DEF IInv
<1>2. \A i \in DOMAIN inbox' : i \in DOMAIN inbox \/ inbox'[i] = m
  BY Sent DEF IInv
<1>3. Recent' = Recent
  BY DEF Recent
<1>4. ASSUME NEW i \in DOMAIN inbox', inbox'[i].op = "start_refresh" PROVE i = 1 /\ Unstarted'
  <2>1. i \in DOMAIN inbox /\ inbox[i].op = "start_refresh"
    BY <1>1, <1>2, <1>4
  <2>2. i = 1 /\ Unstarted
    BY <2>1 DEF IInv, Inbox
  <2>3. QED
    BY <2>2 DEF Unstarted
<1>5. ASSUME NEW i \in DOMAIN inbox', inbox'[i].op = "refresh_result"
      PROVE  worker'.step # "none" /\ (refresh' => Recent')
  <2>1. CASE i \in DOMAIN inbox
    BY <1>1, <1>3, <1>5, <2>1 DEF IInv, Inbox
  <2>2. CASE inbox'[i] = m
    BY <1>3, <1>5, <2>2
  <2>3. QED
    BY <1>2, <2>1, <2>2
<1>6. QED
  BY <1>4, <1>5 DEF Inbox

LEMMA LiveWithMore ==
  ASSUME IInv, NEW m \in Letter, inbox' = Append(inbox, m), refresh' = refresh,
         Alive => Alive' \/ m.op = "down"
  PROVE  RefreshingIsLive'
<1>1. Len(inbox) + 1 \in DOMAIN inbox' /\ inbox'[Len(inbox) + 1] = m
  BY Sent DEF IInv
<1>2. \A i \in DOMAIN inbox : i \in DOMAIN inbox' /\ inbox'[i] = inbox[i]
  BY Sent DEF IInv
<1>3. QED
  BY <1>1, <1>2 DEF IInv, RefreshingIsLive

LEMMA AskInv ==
  ASSUME IInv, NEW c \in Client, NEW op \in Request, NEW p \in Project \union {NoProject}, Ask(c, op, p)
  PROVE  Kept
<1> DEFINE m == [op |-> op, project |-> p, client |-> c, call |-> calls + 1]
<1>1. /\ calls' = calls + 1 /\ calls < MaxCalls
      /\ waiting' = [waiting EXCEPT ![c] = calls + 1] /\ inbox' = Append(inbox, m)
      /\ UNCHANGED <<store, cache, job, refresher, history, starts>>
  BY DEF Ask
<1> USE DEF store, cache, refresher, history
<1>2. calls \in Nat /\ calls + 1 \in 1 .. MaxCalls /\ MaxCalls \in Nat
  BY <1>1, Bounds, Values DEF IInv
<1>3. m \in Letter /\ m.op = op /\ m.call = calls + 1
  BY <1>2 DEF Letter, Call
<1> HIDE DEF m
<1>4. op \notin {"start_refresh", "refresh_result", "down"}
  BY DEF Request
<1>5. Types'
  <2>1. waiting' \in [Client -> 0 .. calls']
    BY <1>1, <1>2 DEF IInv, Types, CountTypes
  <2>2. calls' \in 0 .. MaxCalls
    BY <1>1, <1>2
  <2>3. CountTypes'
    BY <1>1, <2>1, <2>2 DEF IInv, Types, CountTypes
  <2>4. inbox' \in Seq(Letter)
    BY <1>1, <1>3, Sent DEF IInv
  <2>5. QED
    BY <1>1, <2>3, <2>4 DEF IInv, Types, SnapshotTypes
<1>6. Fresh' /\ Jobs' /\ Refreshing' /\ CurrentIsLastParsed'
  BY <1>1 DEF IInv, Fresh, Jobs, Refreshing, Recent, CurrentIsLastParsed
<1>7. RefreshingIsLive'
  BY <1>1, <1>3, LiveWithMore DEF Alive
<1>8. Inbox'
  BY <1>1, <1>3, <1>4, SentInv
<1>9. Counting'
  <2>1. Begun' = Begun /\ Begun <= calls /\ Begun \in Int
    BY <1>1, Values DEF Begun, IInv, Counting
  <2>2. \A i \in DOMAIN inbox : i \in DOMAIN inbox' /\ inbox'[i] = inbox[i] /\ i < Len(inbox) + 1
    BY <1>1, <1>3, Sent DEF IInv
  <2>3. \A i \in DOMAIN inbox' : i \in DOMAIN inbox \/ i = Len(inbox) + 1
    BY <1>1, <1>3, Sent DEF IInv
  <2>4. inbox'[Len(inbox) + 1].call = calls + 1
    BY <1>1, <1>3, Sent DEF IInv
  <2>5. \A i \in DOMAIN inbox : inbox[i].op \in Request => inbox[i].call \in Nat /\ inbox[i].call <= calls
    <3>1. \A i \in DOMAIN inbox : inbox[i] \in Letter
      BY DEF IInv, Types
    <3>2. QED
      BY <3>1, LetterFields, Bounds DEF IInv, Counting
  <2>6. \A i \in DOMAIN inbox' : inbox'[i].op \in Request =>
          Begun' < inbox'[i].call /\ inbox'[i].call <= calls'
    BY <1>1, <1>2, <2>1, <2>2, <2>3, <2>4, <2>5 DEF IInv, Counting
  <2>7. ASSUME NEW i \in DOMAIN inbox', NEW j \in DOMAIN inbox', i < j,
               inbox'[i].op \in Request, inbox'[j].op \in Request
        PROVE  inbox'[i].call < inbox'[j].call
    <3>1. i \in DOMAIN inbox
      <4>1. inbox \in Seq(Letter) /\ inbox' \in Seq(Letter)
        BY <1>5 DEF IInv, Types
      <4>2. Len(inbox) \in Nat /\ DOMAIN inbox = 1 .. Len(inbox) /\ i \in Nat /\ j \in Nat
        BY <4>1
      <4>3. QED
        BY <2>3, <2>7, <4>2
    <3>2. CASE j \in DOMAIN inbox
      BY <2>2, <2>7, <3>1, <3>2 DEF IInv, Counting
    <3>3. CASE j = Len(inbox) + 1
      BY <1>2, <2>2, <2>4, <2>5, <2>7, <3>1, <3>3
    <3>4. QED
      BY <2>3, <3>2, <3>3
  <2>8. Begun' <= calls' /\ (worker'.step \in {"none", "spawned"} => worker'.token = NoToken)
    BY <1>1, <1>2, <2>1 DEF IInv, Counting
  <2>9. QED
    BY <2>6, <2>7, <2>8 DEF Counting
<1>10. QED
  BY <1>1, <1>5, <1>6, <1>7, <1>8, <1>9, SameDisk DEF IInv, Kept

LEMMA GiveUpInv == ASSUME IInv, NEW c \in Client, GiveUp(c) PROVE Kept
<1>1. /\ waiting' = [waiting EXCEPT ![c] = None]
      /\ UNCHANGED <<store, cache, inbox, job, refresher, calls, history, starts>>
  BY DEF GiveUp
<1> USE DEF store, cache, refresher, history
<1>2. Types'
  <2>1. calls \in Nat /\ 0 \in 0 .. calls
    BY Values DEF IInv
  <2>2. waiting' \in [Client -> 0 .. calls]
    BY <1>1, <2>1, Bounds DEF IInv, Types, CountTypes
  <2>3. QED
    BY <1>1, <2>2 DEF IInv, Types, SnapshotTypes, CountTypes
<1>3. Fresh' /\ Jobs' /\ Refreshing' /\ CurrentIsLastParsed' /\ RefreshingIsLive'
  BY <1>1 DEF IInv, Fresh, Jobs, Refreshing, Recent, CurrentIsLastParsed, RefreshingIsLive, Alive
<1>4. Inbox'
  BY <1>1 DEF IInv, Inbox, Unstarted, Recent
<1>5. QED
  BY <1>1, <1>2, <1>3, <1>4, SameCounting, SameDisk DEF IInv, Kept
------------------------------------------------------------------------------
(* The cache takes a message *)

LEMMA HeadLetter ==
  ASSUME IInv, inbox # << >>
  PROVE  /\ Head(inbox) \in Letter /\ Later(Tail(inbox)) /\ Tail(inbox) \in Seq(Letter)
         /\ \E i \in DOMAIN inbox : i = 1 /\ inbox[i] = Head(inbox)
  BY TailIsLater DEF IInv, Types, Later

\* The next operation's number is one of the run's.
LEMMA NextToken ==
  ASSUME IInv, inbox # << >>, Head(inbox).op \in Request
  PROVE  /\ ops + 1 \in Token /\ ops + 1 \in 0 .. MaxOps
         /\ Begun < Head(inbox).call /\ Head(inbox).call <= calls
         /\ Head(inbox).call \in Nat
<1>1. Begun < Head(inbox).call /\ Head(inbox).call <= calls
  BY HeadLetter DEF IInv, Counting
<1>2. Head(inbox).call \in Nat
  BY HeadLetter, LetterFields, Bounds
<1>3. ops \in Nat /\ calls <= MaxCalls /\ calls \in Nat /\ MaxCalls \in Nat /\ ops <= Begun + 1
  BY Values, Bounds DEF IInv, Begun
<1>4. Begun \in Int
  BY <1>3 DEF Begun
<1>5. ops + 1 <= MaxCalls + 1
  BY <1>1, <1>2, <1>3, <1>4
<1>6. QED
  BY <1>1, <1>2, <1>3, <1>5, Bounds DEF Token

\* A client's operation begins.
LEMMA BeginCounting ==
  ASSUME IInv, inbox # << >>, Later(inbox'), Head(inbox).op \in Request,
         ops' = ops + 1, calls' = calls, worker' = worker
  PROVE  Counting'
<1>1. Begun' = Begun + 1 /\ Begun \in Int
  BY Values DEF Begun, IInv
<1>2. /\ Begun < Head(inbox).call /\ Head(inbox).call <= calls /\ Head(inbox).call \in Nat
      /\ calls \in Nat
  BY NextToken, Values DEF IInv
<1>3. \A i \in DOMAIN inbox' : inbox'[i].op \in Request => inbox'[i].call \in Nat
  <2>1. TAKE i \in DOMAIN inbox'
  <2>2. inbox'[i] \in Letter
    BY DEF Later
  <2>3. QED
    BY <2>2, LetterFields, Bounds
<1>4. ASSUME NEW i \in DOMAIN inbox', inbox'[i].op \in Request
      PROVE  Begun' < inbox'[i].call /\ inbox'[i].call <= calls'
  <2>1. Head(inbox).call < inbox'[i].call /\ inbox'[i].call <= calls
    BY <1>4, Taken
  <2>2. QED
    BY <1>1, <1>2, <1>3, <1>4, <2>1
<1>5. \A i, j \in DOMAIN inbox' :
        i < j /\ inbox'[i].op \in Request /\ inbox'[j].op \in Request => inbox'[i].call < inbox'[j].call
  BY Taken
<1>6. Begun' <= calls'
  BY <1>1, <1>2
<1>7. QED
  BY <1>4, <1>5, <1>6 DEF Counting, IInv

LEMMA BeginParseInv == ASSUME IInv, BeginParse PROVE Kept
<1> DEFINE m == Head(inbox)
           p == IF m.project = NoProject THEN Home ELSE m.project
<1>1. /\ job = NotWorking /\ inbox # << >> /\ m.op = "parse"
      /\ job' = [step |-> "scan", op |-> "parse", project |-> p,
                 client |-> m.client, call |-> m.call, token |-> ops + 1, scan |-> None]
      /\ refresh' = FALSE /\ killed' = (killed \/ refresh)
      /\ inbox' = (IF refresh THEN Flushed(Tail(inbox)) ELSE Tail(inbox))
      /\ ops' = ops + 1
      /\ UNCHANGED <<store, caches, current, worker, clients, parsed, starts>>
  BY DEF BeginParse, Receives, CancelRefresh
<1> USE DEF store, clients
<1>2. m.op \in Request
  BY <1>1 DEF Request
<1>3. m \in Letter /\ m.project \in Project \union {NoProject} /\ m.client \in Client /\ m.call \in Nat
  BY <1>1, <1>2, HeadLetter, LetterFields, Bounds
<1>4. p \in Project
  BY <1>3, Bounds
<1>5. ops + 1 \in Token /\ ops + 1 \in 0 .. MaxOps
  BY <1>1, <1>2, NextToken
<1>6. Later(inbox')
  BY <1>1, TailIsLater, FlushedIsLater DEF IInv, Types
<1>7. job' \in JobType
  BY <1>1, <1>3, <1>4, <1>5 DEF JobType
<1>8. outcome' \in [Token -> {"none", "running", "succeeded", "failed", "superseded", "crashed"}]
  <2>1. outcome' = [t \in Token |->
          CASE t = ops + 1 -> "running"
            [] refresh /\ t = worker.token /\ outcome[t] = "running" -> "superseded"
            [] OTHER -> outcome[t]]
    BY DEF BeginParse
  <2>2. \A t \in Token : outcome[t] \in {"none", "running", "succeeded", "failed", "superseded", "crashed"}
    BY DEF IInv, Types, CountTypes
  <2>3. QED
    BY <2>1, <2>2
<1>9. job'.step = "scan" /\ job'.op = "parse" /\ job'.project \in Project
  BY <1>1, <1>4
<1> HIDE DEF m, p
<1>10. Types'
  <2>1. killed' \in BOOLEAN
    BY <1>1 DEF IInv, Types, SnapshotTypes
  <2>2. inbox' \in Seq(Letter)
    BY <1>6 DEF Later
  <2>3. SnapshotTypes'
    BY <1>1, <2>1 DEF IInv, Types, SnapshotTypes
  <2>4. CountTypes'
    BY <1>1, <1>5, <1>8 DEF IInv, Types, CountTypes
  <2>5. QED
    BY <1>1, <1>7, <2>2, <2>3, <2>4 DEF IInv, Types
<1>11. Fresh' /\ Refreshing' /\ CurrentIsLastParsed' /\ RefreshingIsLive'
  BY <1>1 DEF IInv, Fresh, Refreshing, CurrentIsLastParsed, RefreshingIsLive
<1>12. Jobs'
  BY <1>9 DEF Jobs
<1>13. Inbox'
  BY <1>1, <1>6, TookInbox
<1>14. Counting'
  BY <1>1, <1>2, <1>6, BeginCounting DEF m
<1>15. QED
  BY <1>1, <1>10, <1>11, <1>12, <1>13, <1>14, SameDisk DEF IInv, Kept

LEMMA BeginQueryInv == ASSUME IInv, BeginQuery PROVE Kept
<1> DEFINE m == Head(inbox)
<1>1. /\ job = NotWorking /\ inbox # << >> /\ m.op = "query"
      /\ job' = [step |-> "prove", op |-> "query", project |-> m.project,
                 client |-> m.client, call |-> m.call, token |-> ops + 1, scan |-> None]
      /\ inbox' = Tail(inbox) /\ ops' = ops + 1
      /\ outcome' = [outcome EXCEPT ![ops + 1] = "running"]
      /\ UNCHANGED <<store, cache, refresher, clients, parsed, starts>>
  BY DEF BeginQuery, Receives
<1> USE DEF store, clients, cache, refresher
<1>2. m.op \in Request
  BY <1>1 DEF Request
<1>3. m \in Letter /\ m.project \in Project \union {NoProject} /\ m.client \in Client /\ m.call \in Nat
  BY <1>1, <1>2, HeadLetter, LetterFields, Bounds
<1>5. ops + 1 \in Token /\ ops + 1 \in 0 .. MaxOps
  BY <1>1, <1>2, NextToken
<1>6. Later(inbox')
  BY <1>1, HeadLetter
<1>7. job' \in JobType /\ job'.step = "prove" /\ job'.op = "query"
  BY <1>1, <1>3, <1>5 DEF JobType
<1> HIDE DEF m
<1>8. Types'
  <2>1. outcome' \in [Token -> {"none", "running", "succeeded", "failed", "superseded", "crashed"}]
    BY <1>1, <1>5 DEF IInv, Types, CountTypes
  <2>2. CountTypes'
    BY <1>1, <1>5, <2>1 DEF IInv, Types, CountTypes
  <2>3. inbox' \in Seq(Letter)
    BY <1>6 DEF Later
  <2>4. QED
    BY <1>1, <1>7, <2>2, <2>3 DEF IInv, Types, SnapshotTypes
<1>9. Fresh' /\ CurrentIsLastParsed'
  BY <1>1 DEF IInv, Fresh, CurrentIsLastParsed
<1>10. Refreshing' /\ Jobs'
  BY <1>1, <1>7 DEF IInv, Refreshing, Recent, Jobs
<1>11. Inbox'
  BY <1>1, <1>6, TookInbox
<1>12. RefreshingIsLive'
  BY <1>1, LiveBehindTail DEF m
<1>13. Counting'
  BY <1>1, <1>2, <1>6, BeginCounting DEF m
<1>14. QED
  BY <1>1, <1>8, <1>9, <1>10, <1>11, <1>12, <1>13, SameDisk DEF IInv, Kept

LEMMA ReplyType ==
  ASSUME Types, NEW c, NEW n, Reply(c, n)
  PROVE  waiting' \in [Client -> 0 .. calls]
<1>1. calls \in Nat /\ 0 \in 0 .. calls
  BY Values
<1>2. \A d \in Client : waiting[d] \in 0 .. calls
  BY DEF Types, CountTypes
<1>3. QED
  BY <1>1, <1>2, Bounds DEF Reply

LEMMA ReadInv == ASSUME IInv, Read PROVE Kept
<1>1. /\ inbox # << >> /\ Head(inbox).op = "read" /\ inbox' = Tail(inbox)
      /\ UNCHANGED <<store, cache, job, refresher, calls, history, starts>>
  BY DEF Read, Receives
<1> USE DEF store, cache, refresher, history
<1>2. Later(inbox')
  BY <1>1, HeadLetter
<1>3. Types'
  <2>1. waiting' \in [Client -> 0 .. calls]
    BY ReplyType DEF Read, IInv
  <2>2. inbox' \in Seq(Letter)
    BY <1>2 DEF Later
  <2>3. QED
    BY <1>1, <2>1, <2>2 DEF IInv, Types, SnapshotTypes, CountTypes
<1>4. Fresh' /\ Jobs' /\ Refreshing' /\ CurrentIsLastParsed'
  BY <1>1 DEF IInv, Fresh, Jobs, Refreshing, Recent, CurrentIsLastParsed
<1>5. Inbox' /\ Counting'
  BY <1>1, <1>2, TookInbox, TookCounting
<1>6. RefreshingIsLive'
  BY <1>1, LiveBehindTail
<1>7. QED
  BY <1>1, <1>3, <1>4, <1>5, <1>6, SameDisk DEF IInv, Kept

LEMMA StartRefreshInv == ASSUME IInv, StartRefresh PROVE Kept
<1>1. /\ inbox # << >> /\ Head(inbox).op = "start_refresh" /\ inbox' = Tail(inbox)
      /\ refresh' = TRUE /\ worker' = [NoWorker EXCEPT !.step = "spawned"]
      /\ UNCHANGED <<store, caches, current, job, killed, clients, history, starts>>
  BY DEF StartRefresh, Receives
<1> USE DEF store, clients, history
<1>2. Later(inbox') /\ Unstarted
  BY <1>1, HeadLetter DEF IInv, Inbox
<1>3. /\ worker'.step = "spawned" /\ worker'.scan = None /\ worker'.token = NoToken
      /\ worker'.result = "none" /\ worker' \in WorkerType
  BY <1>1, Bounds DEF NoWorker, WorkerType
<1>4. worker.step = "none" /\ worker.token = NoToken /\ job.op = "none" /\ parsed = NoProject
  BY <1>2, NothingYet DEF Unstarted
<1>5. Types'
  <2>1. inbox' \in Seq(Letter)
    BY <1>2 DEF Later
  <2>2. QED
    BY <1>1, <1>3, <2>1 DEF IInv, Types, SnapshotTypes, CountTypes
<1>6. Fresh'
  BY <1>1, <1>3, Bounds, Values DEF IInv, Fresh
<1>7. Jobs' /\ Refreshing' /\ CurrentIsLastParsed' /\ RefreshingIsLive'
  BY <1>1, <1>3, <1>4 DEF IInv, Jobs, Refreshing, CurrentIsLastParsed, RefreshingIsLive, Alive
<1>8. Inbox'
  <2>1. \A i \in DOMAIN inbox' : inbox'[i].op \notin {"start_refresh", "refresh_result"}
    BY <1>1, <1>2, <1>4, Taken
  <2>2. QED
    BY <2>1 DEF Inbox
<1>9. Counting'
  <2>1. Begun' = Begun
    BY <1>1, <1>3, <1>4 DEF Begun
  <2>2. QED
    BY <1>1, <1>2, <1>3, <2>1, Taken DEF IInv, Counting
<1>10. QED
  BY <1>1, <1>5, <1>6, <1>7, <1>8, <1>9, SameDisk DEF IInv, Kept

LEMMA TakeResultInv == ASSUME IInv, TakeResult PROVE Kept
<1>1. /\ inbox # << >> /\ Head(inbox).op = "refresh_result" /\ refresh /\ inbox' = Tail(inbox)
      /\ refresh' = FALSE /\ job = NotWorking
      /\ UNCHANGED <<store, caches, current, killed, clients, ops, parsed, starts>>
  BY DEF TakeResult, Receives
<1> USE DEF store, clients
<1>2. Later(inbox') /\ Recent
  BY <1>1, HeadLetter DEF IInv, Inbox
<1>3. /\ job' \in JobType /\ worker' \in WorkerType
      /\ worker'.step = worker.step /\ worker'.token = worker.token /\ worker'.scan = worker.scan
      /\ outcome' \in [Token -> {"none", "running", "succeeded", "failed", "superseded", "crashed"}]
  <2>1. CASE worker' = worker /\ outcome' = outcome /\
             job' = [NotWorking EXCEPT !.step = "load", !.op = "refresh", !.project = Home,
                                       !.token = worker.token, !.scan = worker.scan]
    <3>1. job' \in JobType
      BY <2>1, Bounds DEF NotWorking, JobType, WorkerType, IInv, Types
    <3>2. QED
      BY <2>1, <3>1 DEF IInv, Types, CountTypes
  <2>2. CASE job' = job /\ worker' = [worker EXCEPT !.result = "told_failed"]
             /\ outcome' = [outcome EXCEPT ![worker.token] = "failed"]
    <3>1. worker' \in WorkerType /\ worker'.step = worker.step /\ worker'.token = worker.token
          /\ worker'.scan = worker.scan
      BY <2>2 DEF IInv, Types, WorkerType
    <3>2. outcome' \in [Token -> {"none", "running", "succeeded", "failed", "superseded", "crashed"}]
      BY <2>2 DEF IInv, Types, CountTypes
    <3>3. QED
      BY <2>2, <3>1, <3>2 DEF IInv, Types
  <2>3. QED
    BY <2>1, <2>2 DEF TakeResult
<1>4. Types'
  <2>1. inbox' \in Seq(Letter)
    BY <1>2 DEF Later
  <2>2. QED
    BY <1>1, <1>3, <2>1 DEF IInv, Types, SnapshotTypes, CountTypes
<1>5. Fresh' /\ Refreshing' /\ CurrentIsLastParsed' /\ RefreshingIsLive'
  BY <1>1, <1>3 DEF IInv, Fresh, Refreshing, CurrentIsLastParsed, RefreshingIsLive
<1>6. Jobs'
  <2>1. CASE job' = job
    BY <1>1, <2>1 DEF IInv, Jobs
  <2>2. CASE job' = [NotWorking EXCEPT !.step = "load", !.op = "refresh", !.project = Home,
                                       !.token = worker.token, !.scan = worker.scan]
    <3>1. /\ job'.step = "load" /\ job'.op = "refresh" /\ job'.project = Home
          /\ job'.scan = worker.scan
      BY <2>2 DEF NotWorking
    <3>2. parsed = NoProject
      BY <1>1 DEF IInv, Refreshing
    <3>3. QED
      BY <1>1, <1>2, <3>1, <3>2, Bounds DEF Jobs, Recent, IInv, Fresh
  <2>3. QED
    BY <2>1, <2>2 DEF TakeResult
<1>7. Inbox' /\ Counting'
  BY <1>1, <1>2, <1>3, TookInbox, TookCounting
<1>8. QED
  BY <1>1, <1>4, <1>5, <1>6, <1>7, SameDisk DEF IInv, Kept

LEMMA DropResultInv == ASSUME IInv, DropResult \/ TakeDown PROVE Kept
<1>1. /\ inbox # << >> /\ inbox' = Tail(inbox) /\ refresh' = FALSE
      /\ UNCHANGED <<store, caches, current, job, refresher, clients, history, starts>>
  BY DEF DropResult, TakeDown, Receives, cache, IInv, Types, SnapshotTypes
<1> USE DEF store, clients, refresher, history
<1>2. Later(inbox')
  BY <1>1, HeadLetter
<1>3. Types'
  <2>1. inbox' \in Seq(Letter)
    BY <1>2 DEF Later
  <2>2. QED
    BY <1>1, <2>1 DEF IInv, Types, SnapshotTypes, CountTypes
<1>4. Fresh' /\ Jobs' /\ Refreshing' /\ CurrentIsLastParsed' /\ RefreshingIsLive'
  BY <1>1 DEF IInv, Fresh, Jobs, Refreshing, CurrentIsLastParsed, RefreshingIsLive
<1>5. Inbox' /\ Counting'
  BY <1>1, <1>2, TookInbox, TookCounting
<1>6. QED
  BY <1>1, <1>3, <1>4, <1>5, SameDisk DEF IInv, Kept
------------------------------------------------------------------------------
(* The cache goes on *)

\* Nothing is said of the messages that a step without them could change.
LEMMA SameInbox ==
  ASSUME IInv, UNCHANGED <<inbox, refresh>>, worker'.scan = worker.scan,
         worker.step # "none" => worker'.step # "none",
         refresh => UNCHANGED <<disk, caches>>, ~Unstarted
  PROVE  Inbox'
<1>1. \A i \in DOMAIN inbox : inbox[i].op # "start_refresh"
  BY DEF IInv, Inbox
<1>2. refresh /\ Recent => Recent'
  BY DEF Recent
<1>3. QED
  BY <1>1, <1>2 DEF IInv, Inbox

LEMMA JobEnds ==
  ASSUME IInv, NEW result \in {"succeeded", "failed"}, EndJob(result), calls' = calls,
         job.step # "receive"
  PROVE  /\ job' = NotWorking /\ job' \in JobType
         /\ worker' \in WorkerType /\ worker'.step = worker.step /\ worker'.token = worker.token
         /\ worker'.scan = worker.scan /\ (worker' = worker \/ ~refresh)
         /\ outcome' \in [Token -> {"none", "running", "succeeded", "failed", "superseded", "crashed"}]
         /\ waiting' \in [Client -> 0 .. calls]
<1>1. job' = NotWorking /\ outcome' = [outcome EXCEPT ![job.token] = result]
  BY DEF EndJob
<1>2. outcome' \in [Token -> {"none", "running", "succeeded", "failed", "superseded", "crashed"}]
  BY <1>1 DEF IInv, Types, CountTypes
<1>3. CASE job.op = "refresh"
  <2>1. PICK told \in {"told_ok", "told_failed"} : worker' = [worker EXCEPT !.result = told]
    BY <1>3 DEF EndJob
  <2>2. waiting' = waiting /\ ~refresh
    BY <1>3 DEF EndJob, IInv, Refreshing
  <2>3. QED
    BY <1>1, <1>2, <2>1, <2>2, NothingYet DEF IInv, Types, CountTypes, WorkerType
<1>4. CASE job.op # "refresh"
  <2>1. Reply(job.client, job.call) /\ worker' = worker
    BY <1>4 DEF EndJob
  <2>2. waiting' \in [Client -> 0 .. calls]
    BY <2>1, ReplyType DEF IInv
  <2>3. QED
    BY <1>1, <1>2, <2>1, <2>2, NothingYet DEF IInv, Types
<1>5. QED
  BY <1>3, <1>4

LEMMA FailedInv ==
  ASSUME IInv, NEW result \in {"succeeded", "failed"}, EndJob(result), job.step # "receive",
         UNCHANGED <<store, cache, inbox, killed, calls, ops, parsed, starts>>
  PROVE  Kept
<1> USE DEF store, cache
<1>1. /\ job' = NotWorking /\ job' \in JobType
      /\ worker' \in WorkerType /\ worker'.step = worker.step /\ worker'.token = worker.token
      /\ worker'.scan = worker.scan /\ (worker' = worker \/ ~refresh)
      /\ outcome' \in [Token -> {"none", "running", "succeeded", "failed", "superseded", "crashed"}]
      /\ waiting' \in [Client -> 0 .. calls]
  BY JobEnds
<1>2. Types'
  BY <1>1 DEF IInv, Types, SnapshotTypes, CountTypes
<1>3. Fresh' /\ CurrentIsLastParsed' /\ RefreshingIsLive'
  BY <1>1 DEF IInv, Fresh, CurrentIsLastParsed, RefreshingIsLive, Alive
<1>4. Jobs' /\ Refreshing'
  BY <1>1, NothingYet DEF IInv, Jobs, Refreshing, Recent
<1>5. Inbox'
  BY <1>1, SameInbox, NothingYet DEF Unstarted
<1>6. Counting'
  BY <1>1, SameCounting
<1>7. QED
  BY <1>2, <1>3, <1>4, <1>5, <1>6, SameDisk DEF IInv, Kept

LEMMA FailJobInv == ASSUME IInv, FailJob PROVE Kept
  BY FailedInv DEF FailJob

LEMMA ProveInv == ASSUME IInv, Prove PROVE Kept
<1>1. PICK result \in {"succeeded", "failed"} : EndJob(result)
  BY DEF Prove
<1>2. QED
  BY <1>1, FailedInv DEF Prove

LEMMA PublishInv == ASSUME IInv, Publish PROVE Kept
<1>1. /\ job.step = "publish" /\ EndJob("succeeded")
      /\ caches' = [caches EXCEPT ![job.project] = job.scan] /\ current' = job.project
      /\ parsed' = (IF job.op = "parse" THEN job.project ELSE parsed)
      /\ UNCHANGED <<store, refresh, inbox, killed, calls, ops, starts>>
  BY DEF Publish
<1> USE DEF store
<1>2. /\ job' = NotWorking /\ job' \in JobType
      /\ worker' \in WorkerType /\ worker'.step = worker.step /\ worker'.token = worker.token
      /\ worker'.scan = worker.scan /\ (worker' = worker \/ ~refresh)
      /\ outcome' \in [Token -> {"none", "running", "succeeded", "failed", "superseded", "crashed"}]
      /\ waiting' \in [Client -> 0 .. calls]
  BY <1>1, JobEnds
<1>3. /\ job.project \in Project /\ job.op \in {"parse", "refresh"} /\ refresh = FALSE
      /\ caches[job.project] <= job.scan /\ job.scan <= tree[job.project]
      /\ job.project = Home => disk = job.scan
  BY <1>1 DEF IInv, Jobs, Refreshing, Types, SnapshotTypes
<1>4. job.scan \in Version \union {None} /\ caches \in [Project -> Version \union {None}]
  BY DEF IInv, Types, SnapshotTypes, JobType
<1>5. Types'
  <2>1. caches' \in [Project -> Version \union {None}]
    BY <1>1, <1>4
  <2>2. current' \in Project \union {NoProject} /\ parsed' \in Project \union {NoProject}
    BY <1>1, <1>3 DEF IInv, Types, SnapshotTypes
  <2>3. QED
    BY <1>1, <1>2, <2>1, <2>2 DEF IInv, Types, SnapshotTypes, CountTypes
<1>6. \A p \in Project : caches'[p] = IF p = job.project THEN job.scan ELSE caches[p]
  BY <1>1, <1>4
<1>7. Fresh'
  BY <1>1, <1>2, <1>3, <1>6, Bounds, Values DEF IInv, Fresh
<1>8. Jobs' /\ Refreshing' /\ RefreshingIsLive'
  BY <1>1, <1>2, <1>3, NothingYet DEF Jobs, Refreshing, RefreshingIsLive
<1>9. CurrentIsLastParsed'
  BY <1>1, <1>3 DEF IInv, Jobs, CurrentIsLastParsed
<1>10. Inbox'
  BY <1>1, <1>2, <1>3, SameInbox, NothingYet DEF Unstarted
<1>11. Counting'
  BY <1>1, <1>2, SameCounting
<1>12. Forward
  BY <1>1, <1>3, <1>6, Values DEF Forward, IInv
<1>13. QED
  BY <1>5, <1>7, <1>8, <1>9, <1>10, <1>11, <1>12 DEF IInv, Kept

\* The job goes on, and nothing of what is served changes.
LEMMA GoesOnInv ==
  ASSUME IInv, UNCHANGED <<tree, cache, inbox, refresher, clients, history, starts>>,
         disk' \in Version \union {None}, disk <= disk', disk' <= tree[Home],
         job.op \in {"parse", "refresh"}, job' \in JobType, Jobs'
  PROVE  Kept
<1> USE DEF cache, refresher, clients, history
<1>1. ~refresh /\ job.step # "receive"
  BY DEF IInv, Refreshing, Jobs
<1>2. Types'
  BY DEF IInv, Types, SnapshotTypes, CountTypes
<1>3. disk' \in Nat /\ disk \in Nat /\ caches[Home] \in Nat
  BY Bounds, Values DEF IInv
<1>4. Fresh'
  BY <1>3 DEF IInv, Fresh
<1>5. Refreshing' /\ RefreshingIsLive' /\ CurrentIsLastParsed'
  BY <1>1 DEF IInv, Refreshing, RefreshingIsLive, CurrentIsLastParsed
<1>6. Inbox'
  BY <1>1, SameInbox, NothingYet DEF Unstarted
<1>7. Forward
  BY <1>3, Values DEF Forward, IInv
<1>8. QED
  BY <1>2, <1>4, <1>5, <1>6, <1>7, SameCounting DEF IInv, Kept

LEMMA ScanInv == ASSUME IInv, Scan PROVE Kept
<1>1. /\ job.step = "scan" /\ job' = [job EXCEPT !.step = "load", !.scan = tree[job.project]]
      /\ UNCHANGED <<store, cache, inbox, refresher, clients, history, starts>>
  BY DEF Scan
<1>2. job.project \in Project /\ job.op \in {"parse", "refresh"}
  BY <1>1 DEF IInv, Jobs
<1>3. /\ job' \in JobType /\ job'.step = "load" /\ job'.scan = tree[job.project]
      /\ job'.op = job.op /\ job'.project = job.project
  BY <1>1, <1>2 DEF IInv, Types, SnapshotTypes, JobType
<1>4. UNCHANGED <<tree, disk, caches, parsed>>
  BY <1>1 DEF store, cache, history
<1>5. Jobs'
  BY <1>2, <1>3, <1>4, Values DEF IInv, Jobs, Fresh
<1>6. disk' \in Version \union {None} /\ disk <= disk' /\ disk' <= tree[Home]
  BY <1>4, Values DEF IInv, Types, SnapshotTypes, Fresh
<1>7. QED
  BY <1>1, <1>2, <1>3, <1>4, <1>5, <1>6, GoesOnInv

LEMMA LoadInv == ASSUME IInv, Load PROVE Kept
<1>1. /\ job.step = "load"
      /\ job' = [job EXCEPT !.step = IF job.project = Home THEN "persist" ELSE "publish"]
      /\ UNCHANGED <<store, cache, inbox, refresher, clients, history, starts>>
  BY DEF Load
<1>2. job.op \in {"parse", "refresh"}
  BY <1>1 DEF IInv, Jobs
<1>3. /\ job' \in JobType /\ job'.step = (IF job.project = Home THEN "persist" ELSE "publish")
      /\ job'.scan = job.scan /\ job'.op = job.op /\ job'.project = job.project
  BY <1>1 DEF IInv, Types, JobType
<1>4. UNCHANGED <<tree, disk, caches, parsed>>
  BY <1>1 DEF store, cache, history
<1>5. Jobs'
  BY <1>1, <1>2, <1>3, <1>4 DEF IInv, Jobs
<1>6. disk' \in Version \union {None} /\ disk <= disk' /\ disk' <= tree[Home]
  BY <1>4, Values DEF IInv, Types, SnapshotTypes, Fresh
<1>7. QED
  BY <1>1, <1>2, <1>3, <1>4, <1>5, <1>6, GoesOnInv

LEMMA PersistInv == ASSUME IInv, Persist PROVE Kept
<1>1. /\ job.step = "persist" /\ job' = [job EXCEPT !.step = "publish"] /\ disk' = job.scan
      /\ UNCHANGED <<tree, cache, inbox, refresher, clients, history, starts>>
  BY DEF Persist
<1>2. job.op \in {"parse", "refresh"} /\ job.project = Home
  BY <1>1 DEF IInv, Jobs
<1>3. /\ job' \in JobType /\ job'.step = "publish"
      /\ job'.scan = job.scan /\ job'.op = job.op /\ job'.project = job.project
      /\ job.scan \in Version \union {None}
  BY <1>1 DEF IInv, Types, JobType
<1>4. disk <= job.scan /\ job.scan <= tree[Home] /\ caches[Home] <= job.scan
  BY <1>1, <1>2 DEF IInv, Jobs
<1>5. UNCHANGED <<tree, caches, parsed>>
  BY <1>1 DEF cache, history
<1>6. Jobs'
  BY <1>1, <1>2, <1>3, <1>4, <1>5, Values DEF IInv, Jobs
<1>7. QED
  BY <1>1, <1>2, <1>3, <1>4, <1>6, GoesOnInv

------------------------------------------------------------------------------
(* The refresh worker *)

LEMMA WorkerStartInv == ASSUME IInv, WorkerStart PROVE Kept
<1>1. /\ worker.step = "spawned" /\ ops' = ops + 1
      /\ worker' = [worker EXCEPT !.step = "scan", !.token = ops + 1]
      /\ UNCHANGED <<store, cache, inbox, job, killed, clients, parsed, starts>>
  BY DEF WorkerStart
<1> USE DEF store, cache, clients
<1>2. worker.token = NoToken /\ Begun = ops /\ ops <= calls
  BY <1>1 DEF IInv, Counting, Begun
<1>3. ops \in Nat /\ ops + 1 \in Token /\ ops + 1 \in 0 .. MaxOps /\ ops + 1 # NoToken
  BY <1>2, Bounds, Values DEF IInv, Token
<1>4. /\ worker' \in WorkerType /\ worker'.step = "scan" /\ worker'.token = ops + 1
      /\ worker'.scan = worker.scan /\ worker'.result = worker.result
  BY <1>1, <1>3 DEF IInv, Types, WorkerType
<1>5. Types'
  <2>1. outcome' \in [Token -> {"none", "running", "succeeded", "failed", "superseded", "crashed"}]
    BY DEF WorkerStart, IInv, Types, CountTypes
  <2>2. QED
    BY <1>1, <1>3, <1>4, <2>1 DEF IInv, Types, SnapshotTypes, CountTypes
<1>6. Fresh' /\ Jobs' /\ CurrentIsLastParsed'
  BY <1>1, <1>4 DEF IInv, Fresh, Jobs, CurrentIsLastParsed
<1>7. Refreshing' /\ RefreshingIsLive'
  BY <1>1, <1>4 DEF IInv, Refreshing, RefreshingIsLive, Alive
<1>8. Inbox'
  BY <1>1, <1>4, SameInbox, NothingYet DEF Unstarted
<1>9. Counting'
  <2>1. Begun' = Begun
    BY <1>1, <1>2, <1>3, <1>4 DEF Begun
  <2>2. QED
    BY <1>1, <1>4, <2>1 DEF IInv, Counting
<1>10. QED
  BY <1>1, <1>5, <1>6, <1>7, <1>8, <1>9, SameDisk DEF IInv, Kept

LEMMA WorkerScanInv == ASSUME IInv, WorkerScan PROVE Kept
<1>1. PICK result \in {"ok", "error"} :
        /\ worker.step = "scan"
        /\ worker' = [worker EXCEPT !.step = "scanned", !.result = result, !.scan = tree[Home]]
        /\ UNCHANGED <<store, cache, inbox, job, killed, clients, history, starts>>
  BY DEF WorkerScan
<1> USE DEF store, cache, clients, history
<1>2. tree[Home] \in Version /\ tree[Home] \in Nat
  BY Bounds DEF IInv, Types, SnapshotTypes
<1>3. /\ worker' \in WorkerType /\ worker'.step = "scanned" /\ worker'.scan = tree[Home]
      /\ worker'.token = worker.token /\ worker'.result = result
  BY <1>1, <1>2 DEF IInv, Types, WorkerType
<1>4. Recent'
  BY <1>1, <1>2, <1>3, Bounds, Values DEF Recent, IInv, Fresh
<1>5. Types'
  BY <1>1, <1>3 DEF IInv, Types, SnapshotTypes, CountTypes
<1>6. Fresh' /\ Jobs' /\ CurrentIsLastParsed'
  BY <1>1, <1>2, <1>3 DEF IInv, Fresh, Jobs, CurrentIsLastParsed
<1>7. Refreshing' /\ RefreshingIsLive'
  BY <1>1, <1>3, <1>4 DEF IInv, Refreshing, RefreshingIsLive, Alive
<1>8. Inbox'
  <2>1. ~Unstarted
    BY <1>1, NothingYet DEF Unstarted
  <2>2. QED
    BY <1>1, <1>3, <1>4, <2>1 DEF IInv, Inbox
<1>9. Counting'
  <2>1. Begun' = Begun
    BY <1>1, <1>3 DEF Begun
  <2>2. QED
    BY <1>1, <1>3, <2>1 DEF IInv, Counting
<1>10. QED
  BY <1>1, <1>5, <1>6, <1>7, <1>8, <1>9, SameDisk DEF IInv, Kept

\* The worker goes on or ends, and may leave a message.
LEMMA WorkerGoesOn ==
  ASSUME IInv, UNCHANGED <<store, cache, job, killed, clients, ops, parsed, starts>>,
         outcome' \in [Token -> {"none", "running", "succeeded", "failed", "superseded", "crashed"}],
         worker.step \notin {"none", "dead"}, NEW step \in {"sent", "dead"},
         worker' = [worker EXCEPT !.step = step],
         \/ UNCHANGED inbox /\ ~refresh
         \/ inbox' = Append(inbox, Message("refresh_result")) /\ step = "sent" /\ worker.step = "scanned"
         \/ inbox' = Append(inbox, Message("down"))
  PROVE  Kept
<1> USE DEF store, cache, clients
<1>1. /\ worker' \in WorkerType /\ worker'.step = step /\ worker'.scan = worker.scan
      /\ worker'.token = worker.token /\ worker'.result = worker.result
  BY DEF IInv, Types, WorkerType
<1>2. PICK m : /\ (inbox' = inbox /\ ~refresh) \/ inbox' = Append(inbox, m)
               /\ m \in Letter /\ m.op \in {"refresh_result", "down"}
               /\ m.op = "refresh_result" => step = "sent" /\ worker.step = "scanned"
  <2>1. /\ Message("down") \in Letter /\ Message("refresh_result") \in Letter
        /\ Message("down").op = "down" /\ Message("refresh_result").op = "refresh_result"
    BY DEF Letter, Message
  <2>2. QED
    BY <2>1
<1>3. inbox' \in Seq(Letter)
  BY <1>2, Sent DEF IInv, Types
<1>4. Types'
  BY <1>1, <1>3 DEF IInv, Types, SnapshotTypes, CountTypes
<1>5. Fresh' /\ Jobs' /\ CurrentIsLastParsed' /\ Refreshing'
  BY <1>1 DEF IInv, Fresh, Jobs, CurrentIsLastParsed, Refreshing, Recent
<1>6. Inbox'
  <2>1. CASE inbox' = inbox
    BY <1>1, <2>1, SameInbox, NothingYet DEF Unstarted
  <2>2. CASE inbox' = Append(inbox, m)
    <3>1. m.op = "refresh_result" => (refresh => Recent)
      BY <1>2 DEF IInv, Refreshing
    <3>2. QED
      BY <1>1, <1>2, <2>2, <3>1, SentInv, NothingYet
  <2>3. QED
    BY <1>2, <2>1, <2>2
<1>7. RefreshingIsLive'
  <2>1. CASE ~refresh
    BY <2>1 DEF RefreshingIsLive
  <2>2. CASE inbox' = Append(inbox, m)
    <3>1. Alive' \/ m.op = "down"
      BY <1>1, <1>2 DEF Alive
    <3>2. QED
      BY <1>2, <2>2, <3>1, LiveWithMore
  <2>3. QED
    BY <1>2, <2>1, <2>2
<1>8. Counting'
  <2>1. Begun' = Begun
    BY <1>1 DEF Begun
  <2>2. CASE inbox' = inbox
    BY <1>1, <2>1, <2>2 DEF IInv, Counting
  <2>3. CASE inbox' = Append(inbox, m)
    <3>1. \A i \in DOMAIN inbox' : inbox'[i].op \in Request => i \in DOMAIN inbox
      BY <1>2, <2>3, Sent DEF IInv, Request
    <3>2. \A i \in DOMAIN inbox : inbox'[i] = inbox[i]
      BY <1>2, <2>3, Sent DEF IInv
    <3>3. QED
      BY <1>1, <2>1, <3>1, <3>2 DEF IInv, Counting
  <2>4. QED
    BY <1>2, <2>2, <2>3
<1>9. QED
  BY <1>4, <1>5, <1>6, <1>7, <1>8, SameDisk DEF IInv, Kept

LEMMA WorkerSendInv == ASSUME IInv, WorkerSend PROVE Kept
  BY WorkerGoesOn DEF WorkerSend, history, IInv, Types, CountTypes

LEMMA WorkerFinishInv == ASSUME IInv, WorkerFinish PROVE Kept
<1>1. ~refresh
  BY DEF WorkerFinish, IInv, Refreshing
<1>2. QED
  BY <1>1, WorkerGoesOn DEF WorkerFinish, history, IInv, Types, CountTypes

LEMMA WorkerDiesInv == ASSUME IInv, WorkerDies PROVE Kept
<1>1. outcome' \in [Token -> {"none", "running", "succeeded", "failed", "superseded", "crashed"}]
  BY DEF WorkerDies, IInv, Types, CountTypes
<1>2. QED
  BY <1>1, WorkerGoesOn DEF WorkerDies, Alive

------------------------------------------------------------------------------
(* The theorems *)

LEMMA NextInv == ASSUME IInv, [Next]_vars PROVE Kept
<1>1. CASE CacheStep
  BY <1>1, BeginParseInv, BeginQueryInv, ReadInv, StartRefreshInv, TakeResultInv, DropResultInv,
     FailJobInv, ScanInv, LoadInv, PersistInv, PublishInv, ProveInv DEF CacheStep
<1>2. CASE WorkerStep \/ WorkerDies
  BY <1>2, WorkerStartInv, WorkerScanInv, WorkerSendInv, WorkerFinishInv, WorkerDiesInv
  DEF WorkerStep
<1>3. CASE TrackerStep
  BY <1>3, StutterInv DEF TrackerStep
<1>4. CASE \E c \in Client : GiveUp(c) \/ \E op \in Request, p \in Project \union {NoProject} : Ask(c, op, p)
  BY <1>4, GiveUpInv, AskInv
<1>5. CASE \E p \in Project : Edit(p)
  BY <1>5, EditInv
<1>6. CASE Restart
  BY <1>6, RestartInv
<1>7. CASE UNCHANGED vars
  BY <1>7, StutterInv DEF vars
<1>8. QED
  BY <1>1, <1>2, <1>3, <1>4, <1>5, <1>6, <1>7 DEF Next

LEMMA Invariance == Spec => []IInv
<1>1. IInv /\ [Next]_vars => IInv'
  BY NextInv DEF Kept
<1>2. QED
  BY <1>1, InitInv, PTL DEF Spec

\* symbolic_codebase: every variable keeps its type, and a run of the program
\* never begins more operations than it was asked for, and the refresh.
THEOREM TypeCorrect == Spec => []TypeOK
<1>1. IInv => TypeOK
  <2> SUFFICES ASSUME IInv PROVE TypeOK
    OBVIOUS
  <2>1. \A i \in DOMAIN inbox : inbox[i] \in Letter
    BY DEF IInv, Types
  <2>2. /\ job.project \in Project \union {NoProject} /\ job.scan \in Version \union {None}
        /\ job.step \in {"receive", "scan", "load", "persist", "publish", "prove"}
    BY DEF IInv, Types, JobType
  <2>3. /\ worker.step \in {"none", "spawned", "scan", "scanned", "sent", "dead"}
        /\ worker.token \in Token \union {NoToken}
    BY DEF IInv, Types, WorkerType
  <2>4. QED
    BY <2>1, <2>2, <2>3 DEF IInv, Types, SnapshotTypes, CountTypes, Letter, TypeOK
<1>2. QED
  BY <1>1, Invariance, PTL

\* cancel_refresh/1 and publish/4: whatever the order of refreshes, parses,
\* failures and restarts, no answer and no database goes back to older sources.
THEOREM NeverGoesBack == Spec => SnapshotsNeverGoBack
<1>1. IInv /\ [Next]_vars =>
        [/\ \A p \in Project : caches'[p] = None \/ caches'[p] >= caches[p]
         /\ disk' = None \/ disk' >= disk]_vars
  BY NextInv DEF Kept, Forward
<1>2. QED
  BY <1>1, Invariance, PTL DEF Spec, SnapshotsNeverGoBack

\* "undefined" is the project parsed last: a refresh never publishes behind an
\* explicit parse.
THEOREM DefaultIsLastParsed == Spec => []CurrentIsLastParsed
<1>1. IInv => CurrentIsLastParsed
  BY DEF IInv
<1>2. QED
  BY <1>1, Invariance, PTL

\* write_bundle/4 before the reply: what is served of the configured project
\* is in its database, or something newer is.
THEOREM WhatIsServedIsSaved == Spec => []ServedIsSaved
<1>1. IInv => ServedIsSaved
  BY Values, Bounds DEF IInv, Fresh, ServedIsSaved
<1>2. QED
  BY <1>1, Invariance, PTL

\* overview's refreshing: a refresh job has a worker or news of its end.
THEOREM RefreshJobIsLive == Spec => []RefreshingIsLive
<1>1. IInv => RefreshingIsLive
  BY DEF IInv
<1>2. QED
  BY <1>1, Invariance, PTL
------------------------------------------------------------------------------
(* What the status tracker is told, and what it shows                        *)

What == {"none", "starting", "parse", "query", "extracting", "loading",
         "succeeded", "failed", "superseded", "crashed", Worker}
Cast == [type : {"started", "phase", "finished", "cancelled"}, token : Token \union {NoToken},
         what : What]
Operation == [owner : Process \union {Nobody}, token : Token \union {NoToken},
              kind : What, phase : What]

StatusTypes ==
  /\ mail \in [Process -> Seq(Cast)]
  /\ active \in Operation /\ last \in [operation : Operation, outcome : What]
  /\ active.owner = Nobody => Idle
  /\ ~Tracked => Idle /\ \A p \in Process : mail[p] = <<>>

\* The worker has been told how its refresh ended; and it has passed that on.
HasTold == worker.result \in {"told_ok", "told_failed"}
Reported == worker.step = "dead" /\ HasTold

\* Process p began operation t; p has told the tracker how it ended.
Owned(p, t) == t \in Token /\ t <= ops /\ (p = Worker <=> t = worker.token)
Over(p, t) == IF p = Worker THEN Reported ELSE outcome[t] # "running"
Ends(cast, t) == cast.type = "finished" /\ cast.token = t

\* How the refresh ends is decided once: by its result, by the parse that
\* supersedes it, or by the death of its worker.
WorkerFate ==
  /\ worker.token <= ops
  /\ worker.step \in {"none", "spawned"} => worker.token = NoToken
  /\ worker.step \in {"scan", "scanned", "sent"} => worker.token # NoToken
  /\ killed \/ refresh => worker.step # "none"
  /\ killed => ~refresh
  /\ HasTold =>
       /\ worker.step \in {"sent", "dead"} /\ worker.token # NoToken /\ ~refresh /\ ~killed
       /\ outcome[worker.token] = IF worker.result = "told_ok" THEN "succeeded" ELSE "failed"
  /\ ~HasTold /\ worker.token # NoToken =>
       IF killed THEN outcome[worker.token] \in {"superseded", "crashed"}
       ELSE outcome[worker.token] = IF worker.step = "dead" THEN "crashed" ELSE "running"
  /\ refresh => \A i \in DOMAIN inbox : inbox[i].op = "refresh_result" => worker.step = "sent"

\* The operation of the cache's job is under way.
JobToken ==
  /\ job.op = "none" => job.token = NoToken
  /\ job.op = "refresh" => /\ job.token = worker.token /\ worker.step = "sent"
                           /\ ~HasTold /\ ~killed /\ ~refresh
  /\ job.op \in {"parse", "query"} => Owned(Cache, job.token) /\ outcome[job.token] = "running"

\* Casts tell the truth, and that an operation began is followed by how it ended.
Genuine(p, cast) ==
  /\ cast.type = "started" => Owned(p, cast.token)
  /\ cast.type = "finished" => /\ Owned(p, cast.token) /\ Over(p, cast.token)
                               /\ cast.what = outcome[cast.token]
  /\ cast.type = "cancelled" => killed /\ cast.what = Worker
Mail == \A p \in Process : \A i \in DOMAIN mail[p] :
  /\ Genuine(p, mail[p][i])
  /\ mail[p][i].type = "started" /\ Over(p, mail[p][i].token) =>
       \E j \in DOMAIN mail[p] : i < j /\ Ends(mail[p][j], mail[p][i].token)

\* The end of the operation shown, if its owner knows it, is on its way.
Shown == ~Idle =>
  /\ Owned(active.owner, active.token)
  /\ Over(active.owner, active.token) =>
       \E j \in DOMAIN mail[active.owner] : Ends(mail[active.owner][j], active.token)

\* The operation completed last has ended for good.
Ended(t, outcomeShown) ==
  /\ t \in Token /\ t <= ops
  /\ t # worker.token => outcome[t] # "running" /\ outcomeShown = outcome[t]
  /\ t = worker.token =>
       /\ killed \/ worker.step = "dead"
       /\ IF HasTold THEN outcomeShown = outcome[t] ELSE outcomeShown \in {"superseded", "crashed"}
Remembered == last # NeverRan => Ended(last.operation.token, last.outcome)

StatusInv == WorkerFate /\ JobToken /\ StatusTypes /\ Mail /\ Shown /\ Remembered

LEMMA Processes ==
  /\ Process = {Cache, Worker} /\ Cache # Worker /\ Nobody \notin Process /\ Tracked \in BOOLEAN
  BY CodebaseAssumption

\* Who an operation shown belongs to.
LEMMA ShownOwner ==
  ASSUME StatusTypes
  PROVE  /\ Idle <=> active.owner = Nobody
         /\ ~Idle => active.owner \in Process
<1>1. Idle => active.owner = Nobody
  BY DEF Idle, NoOperation
<1>2. QED
  BY <1>1 DEF StatusTypes, Operation

\* A token belongs to the worker or to the cache.
LEMMA OverIsDecided ==
  ASSUME WorkerFate, JobToken, NEW p \in Process, NEW t \in Token, Owned(p, t), Over(p, t)
  PROVE  t # job.token \/ job.op \notin {"parse", "query", "refresh"}
  BY Processes DEF WorkerFate, JobToken, Owned, Over, Reported

------------------------------------------------------------------------------
(* The tracker's steps *)

SameOthers == UNCHANGED <<store, cache, inbox, job, refresher, clients, history, starts>>

LEMMA SameFate ==
  ASSUME SameOthers
  PROVE  /\ WorkerFate' = WorkerFate /\ JobToken' = JobToken /\ HasTold' = HasTold
         /\ Reported' = Reported
         /\ \A p, t : Owned(p, t)' = Owned(p, t) /\ Over(p, t)' = Over(p, t)
         /\ \A p, c : Genuine(p, c)' = Genuine(p, c)
         /\ \A t, o : Ended(t, o)' = Ended(t, o)
<1> USE DEF SameOthers, refresher, history, cache
<1>1. HasTold' = HasTold /\ Reported' = Reported
  BY DEF HasTold, Reported
<1>2. \A p, t : Owned(p, t)' = Owned(p, t) /\ Over(p, t)' = Over(p, t)
  BY <1>1 DEF Owned, Over
<1>3. \A p, c : Genuine(p, c)' = Genuine(p, c)
  BY <1>1 DEF Genuine, Owned, Over
<1>4. \A t, o : Ended(t, o)' = Ended(t, o)
  BY <1>1 DEF Ended
<1>5. WorkerFate' = WorkerFate
  BY <1>1 DEF WorkerFate
<1>6. JobToken' = JobToken
  BY <1>1 DEF JobToken, Owned
<1>7. QED
  BY <1>1, <1>2, <1>3, <1>4, <1>5, <1>6

\* What is left of the mail when p's first cast is taken.
LEMMA TookCast ==
  ASSUME StatusTypes, NEW p \in Process, Take(p)
  PROVE  /\ mail' \in [Process -> Seq(Cast)]
         /\ \A q \in Process : q # p => mail'[q] = mail[q]
         /\ 1 \in DOMAIN mail[p] /\ Head(mail[p]) = mail[p][1] /\ mail[p][1] \in Cast
         /\ \A i \in DOMAIN mail'[p] : i + 1 \in DOMAIN mail[p] /\ mail'[p][i] = mail[p][i + 1]
         /\ \A j \in DOMAIN mail[p] : j # 1 => /\ j - 1 \in DOMAIN mail'[p]
                                                /\ mail'[p][j - 1] = mail[p][j]
         /\ DOMAIN mail[p] \subseteq Nat /\ Tracked
<1> DEFINE q == mail[p]
<1>1. q \in Seq(Cast) /\ q # <<>> /\ mail' = [mail EXCEPT ![p] = Tail(q)]
  BY DEF StatusTypes, Take
<1>2. mail \in [Process -> Seq(Cast)] /\ Tracked
  BY <1>1, Processes DEF StatusTypes
<1>3. /\ Tail(q) \in Seq(Cast) /\ Len(Tail(q)) = Len(q) - 1 /\ Len(q) \in Nat /\ Len(q) > 0
      /\ \A i \in 1 .. Len(Tail(q)) : Tail(q)[i] = q[i + 1]
      /\ DOMAIN Tail(q) = 1 .. Len(Tail(q)) /\ DOMAIN q = 1 .. Len(q) /\ Head(q) = q[1]
  BY <1>1
<1>4. mail' \in [Process -> Seq(Cast)] /\ \A r \in Process : r # p => mail'[r] = mail[r]
  BY <1>1, <1>2, <1>3
<1>5. mail'[p] = Tail(q)
  BY <1>1, <1>2
<1>6. 1 \in DOMAIN q /\ q[1] \in Cast
  BY <1>1, <1>3
<1>7. \A i \in DOMAIN Tail(q) : i + 1 \in DOMAIN q /\ Tail(q)[i] = q[i + 1]
  BY <1>3
<1>8. \A j \in DOMAIN q : j # 1 => j - 1 \in DOMAIN Tail(q) /\ Tail(q)[j - 1] = q[j]
  <2>1. TAKE j \in DOMAIN q
  <2>2. HAVE j # 1
  <2>3. j - 1 \in 1 .. Len(Tail(q)) /\ (j - 1) + 1 = j
    BY <1>3, <2>2
  <2>4. QED
    BY <1>3, <2>3
<1>9. DOMAIN q \subseteq Nat
  BY <1>3
<1> HIDE DEF q
<1>10. QED
  BY <1>2, <1>3, <1>4, <1>5, <1>6, <1>7, <1>8, <1>9 DEF q

LEMMA TookMail ==
  ASSUME StatusTypes, Mail, SameOthers, NEW p \in Process, Take(p)
  PROVE  Mail'
<1>1. SUFFICES ASSUME NEW r \in Process, NEW i \in DOMAIN mail'[r]
               PROVE  /\ Genuine(r, mail'[r][i])
                      /\ mail'[r][i].type = "started" /\ Over(r, mail'[r][i].token) =>
                           \E j \in DOMAIN mail'[r] : i < j /\ Ends(mail'[r][j], mail'[r][i].token)
  <2>1. UNCHANGED <<ops, worker, outcome, killed>> /\ Reported' = Reported
    BY SameFate DEF SameOthers, refresher, history
  <2>2. QED
    BY <2>1 DEF Mail, Ends, Genuine, Owned, Over
<1>2. CASE r # p
  BY <1>1, <1>2, TookCast DEF Mail
<1>3. CASE r = p
  <2>1. i + 1 \in DOMAIN mail[p] /\ mail'[p][i] = mail[p][i + 1] /\ i + 1 \in Nat /\ i \in Int
    BY <1>1, <1>3, TookCast DEF StatusTypes
  <2>2. ASSUME mail[p][i + 1].type = "started", Over(p, mail[p][i + 1].token)
        PROVE  \E j \in DOMAIN mail'[p] : i < j /\ Ends(mail'[p][j], mail[p][i + 1].token)
    <3>1. PICK j \in DOMAIN mail[p] : i + 1 < j /\ Ends(mail[p][j], mail[p][i + 1].token)
      BY <2>1, <2>2 DEF Mail
    <3>2. j \in Nat /\ i \in DOMAIN mail'[p] /\ i + 1 # 1
      BY <1>1, <1>3, TookCast
    <3>3. QED
      BY <2>1, <3>1, <3>2, TookCast
  <2>3. Genuine(p, mail[p][i + 1])
    BY <2>1 DEF Mail
  <2>4. QED
    BY <1>3, <2>1, <2>2, <2>3
<1>4. QED
  BY <1>2, <1>3

LEMMA TookTypes ==
  ASSUME StatusTypes, NEW p \in Process, Take(p),
         active' \in Operation, last' \in [operation : Operation, outcome : What],
         active'.owner = Nobody => Idle'
  PROVE  StatusTypes'
  BY TookCast DEF StatusTypes

\* The operation shown is not the one whose end was taken.
LEMMA StillShown ==
  ASSUME StatusTypes, Shown, SameOthers, NEW p \in Process, Take(p),
         active'.owner = active.owner, active'.token = active.token, Idle' => Idle, Idle => Idle',
         active.owner = p /\ ~Idle => ~Ends(Head(mail[p]), active.token)
  PROVE  Shown'
<1> SUFFICES ASSUME ~Idle PROVE Shown'
  BY DEF Shown
<1>1. Owned(active.owner, active.token) /\ active.owner \in Process
  BY ShownOwner DEF Shown
<1>2. ASSUME Over(active.owner, active.token)
      PROVE  \E j \in DOMAIN mail'[active.owner] : Ends(mail'[active.owner][j], active.token)
  <2>1. PICK j \in DOMAIN mail[active.owner] : Ends(mail[active.owner][j], active.token)
    BY <1>2 DEF Shown
  <2>2. CASE active.owner # p
    BY <1>1, <2>1, <2>2, TookCast
  <2>3. CASE active.owner = p
    <3>1. j # 1
      BY <2>1, <2>3, TookCast
    <3>2. QED
      BY <2>1, <2>3, <3>1, TookCast
  <2>4. QED
    BY <2>2, <2>3
<1>3. UNCHANGED <<ops, worker, outcome>> /\ Reported' = Reported
  BY SameFate DEF SameOthers, refresher, history
<1>4. QED
  BY <1>1, <1>2, <1>3 DEF Shown, Owned, Over, Ends

LEMMA StillRemembered ==
  ASSUME Remembered, SameOthers, last' = last
  PROVE  Remembered'
<1>1. UNCHANGED <<ops, worker, outcome, killed>> /\ HasTold' = HasTold
  BY SameFate DEF SameOthers, refresher, history
<1>2. QED
  BY <1>1 DEF Remembered, Ended

\* complete/2
LEMMA Completed ==
  ASSUME StatusTypes, ~Idle, SameOthers, NEW o \in What, Complete(o), Ended(active.token, o)
  PROVE  /\ Shown' /\ Remembered' /\ Idle'
         /\ active' \in Operation /\ last' \in [operation : Operation, outcome : What]
<1>1. UNCHANGED <<ops, worker, outcome, killed>> /\ HasTold' = HasTold
  BY SameFate DEF SameOthers, refresher, history
<1>2. active' = NoOperation /\ last' = [operation |-> active, outcome |-> o]
  BY DEF Complete
<1>3. last'.operation.token = active.token /\ last'.outcome = o
  BY <1>2
<1>4. Remembered'
  BY <1>1, <1>3 DEF Remembered, Ended
<1>5. NoOperation \in Operation
  BY DEF NoOperation, Operation, What
<1>6. last' \in [operation : Operation, outcome : What]
  BY <1>2 DEF StatusTypes
<1>7. QED
  BY <1>2, <1>4, <1>5, <1>6 DEF Shown, Idle

LEMMA ShowStartedInv ==
  ASSUME StatusInv, SameOthers, NEW p \in Process, ShowStarted(p)
  PROVE  StatusTypes' /\ Shown' /\ Remembered'
<1> DEFINE cast == Head(mail[p])
<1>1. /\ Take(p) /\ cast.type = "started" /\ last' = last
      /\ active' = [owner |-> p, token |-> cast.token, kind |-> cast.what, phase |-> "starting"]
  BY DEF ShowStarted
<1>2. cast = mail[p][1] /\ cast \in Cast /\ 1 \in DOMAIN mail[p]
  BY <1>1, TookCast DEF StatusInv
<1>3. active' \in Operation /\ active'.owner = p /\ active'.token = cast.token
  BY <1>1, <1>2 DEF Cast, Operation, What
<1>4. p # Nobody
  BY Processes
<1>5. StatusTypes'
  BY <1>1, <1>3, <1>4, TookTypes DEF StatusInv, StatusTypes
<1>6. Owned(p, cast.token)
  BY <1>1, <1>2 DEF StatusInv, Mail, Genuine
<1>7. ASSUME Over(p, cast.token)
      PROVE  \E j \in DOMAIN mail'[p] : Ends(mail'[p][j], cast.token)
  <2>1. PICK j \in DOMAIN mail[p] : 1 < j /\ Ends(mail[p][j], cast.token)
    BY <1>1, <1>2, <1>7 DEF StatusInv, Mail
  <2>2. j # 1
    BY <2>1
  <2>3. j - 1 \in DOMAIN mail'[p] /\ mail'[p][j - 1] = mail[p][j]
    BY <1>1, <2>2, TookCast DEF StatusInv
  <2>4. QED
    BY <2>1, <2>3
<1>8. UNCHANGED <<ops, worker, outcome>> /\ Reported' = Reported
  BY SameFate DEF SameOthers, refresher, history
<1>9. Shown'
  BY <1>3, <1>6, <1>7, <1>8 DEF Shown, Owned, Over, Ends
<1>10. QED
  BY <1>1, <1>5, <1>9, StillRemembered DEF StatusInv

LEMMA ShowPhaseInv ==
  ASSUME StatusInv, SameOthers, NEW p \in Process, ShowPhase(p) \/ IgnoreCast(p)
  PROVE  StatusTypes' /\ Shown' /\ Remembered'
<1> DEFINE cast == Head(mail[p])
<1>1. Take(p) /\ last' = last
  BY DEF ShowPhase, IgnoreCast
<1>2. cast = mail[p][1] /\ cast \in Cast
  BY <1>1, TookCast DEF StatusInv
<1>3. active' = active \/ (~Idle /\ active' = [active EXCEPT !.phase = cast.what])
  BY DEF ShowPhase, IgnoreCast, Accepts, FromOwner
<1>4. active \in Operation /\ cast.what \in What
  BY <1>2 DEF StatusInv, StatusTypes, Cast
<1>5. /\ active' \in Operation /\ active'.owner = active.owner /\ active'.token = active.token
      /\ active'.owner = Nobody => Idle'
      /\ Idle' <=> Idle
  <2>1. CASE active' = active
    BY <1>4, <2>1, ShownOwner DEF StatusInv, Idle
  <2>2. CASE ~Idle /\ active' = [active EXCEPT !.phase = cast.what]
    <3>1. active' \in Operation /\ active'.owner = active.owner /\ active'.token = active.token
      BY <1>4, <2>2 DEF Operation
    <3>2. active.owner # Nobody
      BY <2>2, ShownOwner DEF StatusInv
    <3>3. ~Idle'
      BY <3>1, <3>2 DEF Idle, NoOperation
    <3>4. QED
      BY <2>2, <3>1, <3>2, <3>3
  <2>3. QED
    BY <1>3, <2>1, <2>2
<1>6. active.owner = p /\ ~Idle => ~Ends(cast, active.token)
  BY DEF ShowPhase, IgnoreCast, Accepts, FromOwner, Ends
<1>7. StatusTypes'
  BY <1>1, <1>5, TookTypes DEF StatusInv, StatusTypes
<1>8. Shown'
  BY <1>1, <1>5, <1>6, StillShown DEF StatusInv
<1>9. QED
  BY <1>1, <1>7, <1>8, StillRemembered DEF StatusInv

LEMMA ShowEndInv ==
  ASSUME StatusInv, SameOthers, NEW p \in Process, ShowFinished(p) \/ ShowCancelled(p)
  PROVE  StatusTypes' /\ Shown' /\ Remembered'
<1> DEFINE cast == Head(mail[p])
<1>1. Take(p) /\ cast = mail[p][1] /\ cast \in Cast /\ Genuine(p, cast)
  <2>1. Take(p)
    BY DEF ShowFinished, ShowCancelled
  <2>2. QED
    BY <2>1, TookCast DEF StatusInv, Mail
<1>2. PICK o \in What : Complete(o) /\ Ended(active.token, o) /\ ~Idle
  <2>1. CASE ShowFinished(p)
    <3>1. /\ cast.type = "finished" /\ Complete(cast.what) /\ ~Idle
          /\ active.owner = p /\ active.token = cast.token
      BY <2>1 DEF ShowFinished, Accepts, FromOwner
    <3>2. Owned(p, active.token) /\ Over(p, active.token) /\ cast.what = outcome[active.token]
      BY <1>1, <3>1 DEF Genuine
    <3>3. Ended(active.token, cast.what)
      BY <3>2 DEF Ended, Owned, Over, Reported
    <3>4. cast.what \in What
      BY <1>1 DEF Cast
    <3>5. QED
      BY <3>1, <3>3, <3>4
  <2>2. CASE ShowCancelled(p)
    <3>1. /\ cast.type = "cancelled" /\ Complete("superseded") /\ ~Idle
          /\ active.owner = cast.what
      BY <2>2 DEF ShowCancelled, Accepts
    <3>2. killed /\ active.owner = Worker
      BY <1>1, <3>1 DEF Genuine
    <3>3. Owned(Worker, active.token) /\ ~HasTold
      BY <3>1, <3>2 DEF StatusInv, Shown, WorkerFate
    <3>4. Ended(active.token, "superseded")
      BY <3>2, <3>3 DEF Ended, Owned
    <3>5. QED
      BY <3>1, <3>4 DEF What
  <2>3. QED
    BY <2>1, <2>2
<1>3. /\ Shown' /\ Remembered' /\ Idle'
      /\ active' \in Operation /\ last' \in [operation : Operation, outcome : What]
  BY <1>2, Completed DEF StatusInv
<1>4. QED
  BY <1>1, <1>3, TookTypes DEF StatusInv

LEMMA ShowDownInv ==
  ASSUME StatusInv, SameOthers, worker.step = "dead", ShowDown(Worker)
  PROVE  StatusTypes' /\ Shown' /\ Remembered' /\ Mail'
<1>1. ~Idle /\ active.owner = Worker /\ mail[Worker] = <<>> /\ Complete("crashed") /\ mail' = mail
  BY DEF ShowDown
<1>2. Owned(Worker, active.token) /\ ~Over(Worker, active.token)
  BY <1>1 DEF StatusInv, Shown
<1>3. Ended(active.token, "crashed")
  BY <1>2 DEF Ended, Owned, Over, Reported
<1>4. /\ Shown' /\ Remembered' /\ Idle'
      /\ active' \in Operation /\ last' \in [operation : Operation, outcome : What]
  BY <1>1, <1>3, Completed DEF StatusInv, What
<1>5. StatusTypes'
  BY <1>1, <1>4 DEF StatusInv, StatusTypes
<1>6. UNCHANGED <<ops, worker, outcome, killed>> /\ Reported' = Reported
  BY SameFate DEF SameOthers, refresher, history
<1>7. Mail'
  BY <1>1, <1>6 DEF StatusInv, Mail, Genuine, Owned, Over, Ends
<1>8. QED
  BY <1>4, <1>5, <1>7

LEMMA TrackerStatus == ASSUME StatusInv, TrackerStep PROVE StatusInv'
<1>1. SameOthers
  BY DEF TrackerStep, SameOthers
<1>2. WorkerFate' /\ JobToken'
  BY <1>1, SameFate DEF StatusInv
<1>3. CASE \E p \in Process : \/ ShowStarted(p) \/ ShowPhase(p) \/ ShowFinished(p)
                              \/ ShowCancelled(p) \/ IgnoreCast(p)
  <2>1. PICK p \in Process : \/ ShowStarted(p) \/ ShowPhase(p) \/ ShowFinished(p)
                             \/ ShowCancelled(p) \/ IgnoreCast(p)
    BY <1>3
  <2>2. Take(p)
    BY <2>1 DEF ShowStarted, ShowPhase, ShowFinished, ShowCancelled, IgnoreCast
  <2>3. Mail'
    BY <1>1, <2>2, TookMail DEF StatusInv
  <2>4. StatusTypes' /\ Shown' /\ Remembered'
    BY <1>1, <2>1, ShowStartedInv, ShowPhaseInv, ShowEndInv
  <2>5. QED
    BY <1>2, <2>3, <2>4 DEF StatusInv
<1>4. CASE worker.step = "dead" /\ ShowDown(Worker)
  BY <1>1, <1>2, <1>4, ShowDownInv DEF StatusInv
<1>5. QED
  BY <1>3, <1>4 DEF TrackerStep, Observe

------------------------------------------------------------------------------
(* The steps of the owners *)

\* Casts are only added, at the end.
Longer ==
  \A p \in Process : \A i \in DOMAIN mail[p] :
    /\ i \in DOMAIN mail'[p] /\ mail'[p][i] = mail[p][i]
    /\ \A j \in DOMAIN mail'[p] : j \in DOMAIN mail[p] \/ i < j
New(p, i) == i \in DOMAIN mail'[p] /\ i \notin DOMAIN mail[p]

LEMMA Posted ==
  ASSUME StatusTypes, NEW p \in Process, NEW casts \in Seq(Cast), Post(p, casts),
         UNCHANGED <<active, last>>
  PROVE  /\ StatusTypes' /\ Longer
         /\ \A q \in Process : \A i : New(q, i) =>
              q = p /\ \E k \in DOMAIN casts : mail'[q][i] = casts[k]
         /\ Tracked => \A k \in DOMAIN casts : \E i : New(p, i) /\ mail'[p][i] = casts[k]
<1>1. mail \in [Process -> Seq(Cast)]
  BY DEF StatusTypes
<1>2. CASE ~Tracked
  <2>1. mail' = mail
    BY <1>2 DEF Post
  <2>2. \A q \in Process : mail[q] = <<>>
    BY <1>2 DEF StatusTypes
  <2>3. QED
    BY <1>2, <2>1, <2>2 DEF StatusTypes, Longer, New, Idle
<1>3. CASE Tracked
  <2> DEFINE q == mail[p]
             r == q \o casts
  <2>1. mail' = [mail EXCEPT ![p] = r]
    BY <1>3 DEF Post
  <2>2. q \in Seq(Cast)
    BY <1>1
  <2>3. /\ r \in Seq(Cast) /\ Len(r) = Len(q) + Len(casts) /\ Len(q) \in Nat /\ Len(casts) \in Nat
        /\ \A i \in 1 .. Len(q) : r[i] = q[i]
    BY <2>2
  <2>4. \A k \in 1 .. Len(casts) : r[Len(q) + k] = casts[k]
    BY <2>2, <2>3
  <2>5. DOMAIN q = 1 .. Len(q) /\ DOMAIN casts = 1 .. Len(casts) /\ DOMAIN r = 1 .. Len(q) + Len(casts)
    BY <2>2, <2>3
  <2>6. mail'[p] = r /\ (\A s \in Process : s # p => mail'[s] = mail[s])
        /\ mail' \in [Process -> Seq(Cast)]
    BY <1>1, <2>1, <2>3
  <2> HIDE DEF r, q
  <2>7. StatusTypes'
    BY <1>3, <2>6 DEF StatusTypes, Idle
  <2>8. \A i \in DOMAIN q : i \in DOMAIN r /\ r[i] = q[i] /\ \A j \in DOMAIN r : j \in DOMAIN q \/ i < j
    BY <2>3, <2>5
  <2>9. \A s \in Process : \A i, j \in DOMAIN mail[s] : j \in DOMAIN mail[s]
    OBVIOUS
  <2>10. Longer
    BY <2>6, <2>8 DEF Longer, q
  <2>11. \A i \in DOMAIN r : i \notin DOMAIN q => \E k \in DOMAIN casts : r[i] = casts[k]
    <3>1. TAKE i \in DOMAIN r
    <3>2. HAVE i \notin DOMAIN q
    <3>3. i - Len(q) \in 1 .. Len(casts) /\ Len(q) + (i - Len(q)) = i
      BY <2>3, <2>5, <3>2
    <3>4. QED
      BY <2>4, <2>5, <3>3
  <2>12. \A k \in DOMAIN casts : Len(q) + k \in DOMAIN r /\ Len(q) + k \notin DOMAIN q
                                 /\ r[Len(q) + k] = casts[k]
    BY <2>3, <2>4, <2>5
  <2>13. QED
    BY <2>6, <2>7, <2>10, <2>11, <2>12 DEF New, q
<1>4. QED
  BY <1>2, <1>3, Processes

LEMMA NothingPosted ==
  ASSUME StatusTypes, UNCHANGED statusVars
  PROVE  /\ StatusTypes' /\ Longer /\ \A p, i : ~New(p, i)
<1>1. UNCHANGED <<mail, active, last>>
  BY DEF statusVars
<1>2. StatusTypes'
  BY <1>1 DEF StatusTypes, Idle
<1>3. QED
  BY <1>1, <1>2 DEF Longer, New

\* What is in the mail, shown and remembered stays true, if the owners keep
\* their operations, an end stays what it was, and a new one is told.
Announced(p, t) == Tracked => \E i : New(p, i) /\ Ends(mail'[p][i], t)
Kind(p, i) == Genuine(p, mail[p][i]) /\ (mail[p][i].type = "started" => ~Over(p, mail[p][i].token))

LEMMA OwnersStep ==
  ASSUME StatusInv, UNCHANGED <<active, last>>, Longer, StatusTypes',
         ops \in Nat, ops' \in Nat, ops <= ops',
         \A t \in Token : t <= ops => (t = worker'.token <=> t = worker.token),
         \A p \in Process, t \in Token : Owned(p, t) /\ Over(p, t) => Over(p, t)' /\ outcome'[t] = outcome[t],
         \A p \in Process, t \in Token : Owned(p, t) /\ Over(p, t)' => Over(p, t) \/ Announced(p, t),
         \A p \in Process : \A i : New(p, i) => Kind(p, i)',
         killed => killed',
         killed \/ worker.step = "dead" =>
           (killed' \/ worker'.step = "dead") /\ (HasTold' <=> HasTold)
  PROVE  Mail' /\ Shown' /\ Remembered'
<1>1. \A p \in Process, t \in Token : Owned(p, t) => Owned(p, t)'
  BY Bounds DEF Owned
<1>2. ASSUME NEW p \in Process, NEW i \in DOMAIN mail'[p]
      PROVE  /\ Genuine(p, mail[p][i])'
             /\ (mail[p][i].type = "started" /\ Over(p, mail[p][i].token) =>
                  \E j \in DOMAIN mail[p] : i < j /\ Ends(mail[p][j], mail[p][i].token))'
  <2>1. PICK c : c = mail'[p][i]
    OBVIOUS
  <2>2. CASE i \in DOMAIN mail[p]
    <3>1. c = mail[p][i]
      BY <2>1, <2>2 DEF Longer
    <3>2. /\ Genuine(p, c)
          /\ c.type = "started" /\ Over(p, c.token) =>
               \E j \in DOMAIN mail[p] : i < j /\ Ends(mail[p][j], c.token)
      BY <2>2, <3>1 DEF StatusInv, Mail
    <3>3. c.type = "started" => Owned(p, c.token)'
      BY <1>1, <3>2 DEF Genuine, Owned
    <3>4. c.type = "finished" => /\ Owned(p, c.token)' /\ Over(p, c.token)'
                                 /\ c.what = outcome'[c.token]
      <4>1. SUFFICES ASSUME c.type = "finished"
                     PROVE  Owned(p, c.token)' /\ Over(p, c.token)' /\ c.what = outcome'[c.token]
        OBVIOUS
      <4>2. Owned(p, c.token) /\ Over(p, c.token) /\ c.what = outcome[c.token] /\ c.token \in Token
        BY <3>2, <4>1 DEF Genuine, Owned
      <4>3. QED
        BY <1>1, <4>2
    <3>5. ASSUME c.type = "started", Over(p, c.token)'
          PROVE  \E j \in DOMAIN mail'[p] : i < j /\ Ends(mail'[p][j], c.token)
      <4>1. Owned(p, c.token) /\ c.token \in Token
        BY <3>2, <3>5 DEF Genuine, Owned
      <4>2. CASE Over(p, c.token)
        <5>1. PICK j \in DOMAIN mail[p] : i < j /\ Ends(mail[p][j], c.token)
          BY <3>2, <3>5, <4>2
        <5>2. j \in DOMAIN mail'[p] /\ mail'[p][j] = mail[p][j]
          BY DEF Longer
        <5>3. QED
          BY <5>1, <5>2
      <4>3. CASE Announced(p, c.token)
        <5>1. Tracked
          BY <2>2, Processes DEF StatusInv, StatusTypes
        <5>2. PICK j : New(p, j) /\ Ends(mail'[p][j], c.token)
          BY <4>3, <5>1 DEF Announced
        <5>3. j \in DOMAIN mail'[p] /\ i < j
          BY <2>2, <5>2 DEF Longer, New
        <5>4. QED
          BY <5>2, <5>3
      <4>4. QED
        BY <3>5, <4>1, <4>2, <4>3
    <3>6. c.type = "cancelled" => killed' /\ c.what = Worker
      BY <3>2 DEF Genuine
    <3>7. QED
      BY <2>1, <3>3, <3>4, <3>5, <3>6 DEF Genuine, Owned, Over, Ends
  <2>3. CASE i \notin DOMAIN mail[p]
    <3>1. Kind(p, i)'
      BY <2>3 DEF New
    <3>2. QED
      BY <3>1 DEF Kind, Genuine, Owned, Over, Ends
  <2>4. QED
    BY <2>2, <2>3
<1>3. Mail'
  BY <1>2 DEF Mail
<1>4. Shown'
  <2>1. SUFFICES ASSUME ~Idle PROVE Shown'
    BY DEF Shown, Idle
  <2>2. PICK p \in Process, t \in Token : p = active.owner /\ t = active.token /\ Owned(p, t)
    BY <2>1, ShownOwner DEF StatusInv, Shown, Owned
  <2>3. ASSUME Over(p, t)'
        PROVE  \E j \in DOMAIN mail'[p] : Ends(mail'[p][j], t)
    <3>1. CASE Over(p, t)
      <4>1. PICK j \in DOMAIN mail[p] : Ends(mail[p][j], t)
        BY <2>1, <2>2, <3>1 DEF StatusInv, Shown
      <4>2. j \in DOMAIN mail'[p] /\ mail'[p][j] = mail[p][j]
        BY DEF Longer
      <4>3. QED
        BY <4>1, <4>2
    <3>2. CASE Announced(p, t)
      <4>1. Tracked
        BY <2>1, Processes DEF StatusInv, StatusTypes
      <4>2. QED
        BY <3>2, <4>1 DEF Announced, New
    <3>3. QED
      BY <2>2, <2>3, <3>1, <3>2
  <2>4. Owned(p, t)'
    BY <1>1, <2>2
  <2>5. QED
    BY <2>2, <2>3, <2>4 DEF Shown, Owned, Over, Ends
<1>5. Remembered'
  <2>1. SUFFICES ASSUME last # NeverRan PROVE Remembered'
    BY DEF Remembered
  <2>2. PICK t : t = last.operation.token
    OBVIOUS
  <2>3. PICK o : o = last.outcome
    OBVIOUS
  <2>4. Ended(t, o)
    BY <2>1, <2>2, <2>3 DEF StatusInv, Remembered
  <2>5. t \in Token /\ t <= ops' /\ (t = worker'.token <=> t = worker.token)
    BY <2>4, Bounds DEF Ended
  <2>6. CASE t # worker.token
    <3>1. Owned(Cache, t) /\ Over(Cache, t) /\ o = outcome[t]
      BY <2>4, <2>6, Processes DEF Ended, Owned, Over
    <3>2. Over(Cache, t)' /\ outcome'[t] = outcome[t]
      BY <2>5, <3>1, Processes
    <3>3. Ended(t, o)'
      BY <2>5, <2>6, <3>1, <3>2, Processes DEF Ended, Over
    <3>4. QED
      BY <2>2, <2>3, <3>3 DEF Remembered, Ended
  <2>7. CASE t = worker.token
    <3>1. (killed \/ worker.step = "dead") /\ (killed' \/ worker'.step = "dead") /\ (HasTold' <=> HasTold)
      BY <2>4, <2>7 DEF Ended
    <3>2. HasTold => outcome'[t] = outcome[t]
      <4>1. SUFFICES ASSUME HasTold PROVE outcome'[t] = outcome[t]
        OBVIOUS
      <4>2. Reported
        BY <3>1, <4>1 DEF Reported, StatusInv, WorkerFate
      <4>3. Owned(Worker, t) /\ Over(Worker, t)
        BY <2>4, <2>7, <4>2 DEF Owned, Over, Ended
      <4>4. QED
        BY <2>5, <4>3, Processes
    <3>3. Ended(t, o)'
      BY <2>4, <2>5, <2>7, <3>1, <3>2 DEF Ended
    <3>4. QED
      BY <2>2, <2>3, <3>3 DEF Remembered, Ended
  <2>8. QED
    BY <2>6, <2>7
<1>6. QED
  BY <1>3, <1>4, <1>5

\* A step that posts nothing and, at most, ends the worker's operation.
LEMMA QuietStep ==
  ASSUME IInv, StatusInv, UNCHANGED <<statusVars, ops, killed>>, worker'.token = worker.token,
         \A t \in Token : t # worker.token => outcome'[t] = outcome[t],
         Reported => outcome'[worker.token] = outcome[worker.token],
         (Reported' <=> Reported),
         worker.step = "dead" => worker'.step = "dead",
         killed \/ worker.step = "dead" => (HasTold' <=> HasTold)
  PROVE  StatusTypes' /\ Mail' /\ Shown' /\ Remembered'
<1>1. StatusTypes' /\ Longer /\ \A p, i : ~New(p, i)
  BY NothingPosted DEF StatusInv
<1>2. UNCHANGED <<active, last>> /\ ops \in Nat /\ ops' = ops
  BY Values DEF statusVars, IInv
<1>3. \A p \in Process, t \in Token :
        Owned(p, t) /\ Over(p, t) => Over(p, t)' /\ outcome'[t] = outcome[t]
  BY DEF Owned, Over
<1>4. \A p \in Process, t \in Token : Owned(p, t) /\ Over(p, t)' => Over(p, t) \/ Announced(p, t)
  BY DEF Owned, Over
<1>5. QED
  BY <1>1, <1>2, <1>3, <1>4, OwnersStep

\* Nor does a step that the worker and its operation are not part of change its fate.
LEMMA FateKept ==
  ASSUME IInv, StatusInv, UNCHANGED <<worker, killed, ops, outcome>>, refresh' => refresh,
         \/ inbox' = inbox
         \/ inbox # <<>> /\ Later(inbox')
         \/ \E m \in Letter : inbox' = Append(inbox, m) /\ m.op # "refresh_result"
  PROVE  WorkerFate'
<1>1. refresh' => \A i \in DOMAIN inbox' : inbox'[i].op = "refresh_result" => worker.step = "sent"
  <2>1. SUFFICES ASSUME refresh, NEW i \in DOMAIN inbox', inbox'[i].op = "refresh_result"
                 PROVE  worker.step = "sent"
    OBVIOUS
  <2>2. \E j \in DOMAIN inbox : inbox[j] = inbox'[i]
    <3>1. CASE inbox # <<>> /\ Later(inbox')
      BY <3>1 DEF Later
    <3>2. CASE \E m \in Letter : inbox' = Append(inbox, m) /\ m.op # "refresh_result"
      BY <2>1, <3>2, Sent DEF IInv
    <3>3. QED
      BY <3>1, <3>2
  <2>3. QED
    BY <2>1, <2>2 DEF StatusInv, WorkerFate
<1>2. (HasTold' <=> HasTold)
  BY DEF HasTold
<1>3. QED
  BY <1>1, <1>2 DEF StatusInv, WorkerFate

LEMMA JobKept ==
  ASSUME StatusInv, UNCHANGED <<worker, killed, ops, outcome>>, refresh' => refresh,
         job'.op = job.op, job'.token = job.token
  PROVE  JobToken'
<1>1. (HasTold' <=> HasTold)
  BY DEF HasTold
<1>2. QED
  BY <1>1 DEF StatusInv, JobToken, Owned

LEMMA ApartStatus ==
  ASSUME IInv, StatusInv, UNCHANGED <<statusVars, worker, killed, ops, outcome>>, refresh' => refresh,
         job'.op = job.op, job'.token = job.token,
         \/ inbox' = inbox
         \/ inbox # <<>> /\ Later(inbox')
         \/ \E m \in Letter : inbox' = Append(inbox, m) /\ m.op # "refresh_result"
  PROVE  StatusInv'
<1>1. WorkerFate' /\ JobToken'
  BY FateKept, JobKept
<1>2. (HasTold' <=> HasTold) /\ (Reported' <=> Reported)
  BY DEF HasTold, Reported
<1>3. StatusTypes' /\ Mail' /\ Shown' /\ Remembered'
  BY <1>2, QuietStep
<1>4. QED
  BY <1>1, <1>3 DEF StatusInv

LEMMA OutsideStatus ==
  ASSUME IInv, StatusInv,
         \/ \E p \in Project : Edit(p)
         \/ \E c \in Client : GiveUp(c) \/ \E op \in Request, p \in Project \union {NoProject} : Ask(c, op, p)
         \/ Read \/ DropResult \/ TakeDown \/ Scan \/ Load \/ Persist
  PROVE  StatusInv'
<1> USE DEF cache, refresher, history
<1>1. CASE \E p \in Project : Edit(p)
  BY <1>1, ApartStatus DEF Edit
<1>2. CASE \E c \in Client : GiveUp(c)
  BY <1>2, ApartStatus DEF GiveUp
<1>3. CASE \E c \in Client, op \in Request, p \in Project \union {NoProject} : Ask(c, op, p)
  <2>1. PICK c \in Client, op \in Request, p \in Project \union {NoProject} : Ask(c, op, p)
    BY <1>3
  <2> DEFINE m == [op |-> op, project |-> p, client |-> c, call |-> calls + 1]
  <2>2. calls < MaxCalls /\ inbox' = Append(inbox, m)
    BY <2>1 DEF Ask
  <2>3. calls + 1 \in 1 .. MaxCalls
    BY <2>2, Values, Bounds DEF IInv
  <2>4. m \in Letter /\ m.op # "refresh_result"
    BY <2>3 DEF Letter, Call, Request
  <2>5. QED
    BY <2>1, <2>2, <2>4, ApartStatus DEF Ask
<1>4. CASE Read \/ DropResult \/ TakeDown
  <2>1. inbox # <<>> /\ Later(inbox')
    BY <1>4, HeadLetter DEF Read, DropResult, TakeDown, Receives
  <2>2. QED
    BY <1>4, <2>1, ApartStatus DEF Read, DropResult, TakeDown
<1>5. CASE Scan \/ Load \/ Persist
  <2>1. job'.op = job.op /\ job'.token = job.token
    BY <1>5 DEF Scan, Load, Persist, IInv, Types, JobType
  <2>2. QED
    BY <1>5, <2>1, ApartStatus DEF Scan, Load, Persist
<1>6. QED
  BY <1>1, <1>2, <1>3, <1>4, <1>5

LEMMA StartRefreshStatus == ASSUME IInv, StatusInv, StartRefresh PROVE StatusInv'
<1>1. /\ inbox # << >> /\ Head(inbox).op = "start_refresh" /\ inbox' = Tail(inbox)
      /\ worker' = [NoWorker EXCEPT !.step = "spawned"]
      /\ UNCHANGED <<statusVars, job, killed, ops, outcome>>
  BY DEF StartRefresh, Receives, history
<1>2. Later(inbox') /\ Unstarted
  BY <1>1, HeadLetter DEF IInv, Inbox
<1>3. worker'.step = "spawned" /\ worker'.token = NoToken /\ worker'.result = "none"
  BY <1>1 DEF NoWorker
<1>4. /\ worker.step = "none" /\ worker.token = NoToken /\ worker.result = "none"
      /\ job.op = "none" /\ job.token = NoToken
  BY <1>2, NothingYet DEF Unstarted, NotWorking
<1>5. ~HasTold /\ ~HasTold' /\ ~Reported /\ ~Reported' /\ ~killed
  BY <1>3, <1>4 DEF HasTold, Reported, StatusInv, WorkerFate
<1>6. \A i \in DOMAIN inbox' : inbox'[i].op # "refresh_result"
  BY <1>1, <1>2, <1>4, Taken
<1>7. WorkerFate'
  BY <1>1, <1>3, <1>5, <1>6, Values, Bounds DEF WorkerFate, IInv
<1>8. JobToken'
  BY <1>1, <1>4 DEF JobToken
<1>9. StatusTypes' /\ Mail' /\ Shown' /\ Remembered'
  BY <1>1, <1>3, <1>4, <1>5, QuietStep
<1>10. QED
  BY <1>7, <1>8, <1>9 DEF StatusInv

\* The worker's operation ends with the result the worker is told.
LEMMA ToldStatus ==
  ASSUME IInv, StatusInv, worker.step = "sent", ~killed, ~HasTold, ~refresh',
         NEW result \in {"succeeded", "failed"},
         worker' = [worker EXCEPT !.result = IF result = "succeeded" THEN "told_ok" ELSE "told_failed"],
         outcome' = [outcome EXCEPT ![worker.token] = result],
         job' = NotWorking, UNCHANGED <<statusVars, ops, killed>>
  PROVE  StatusInv'
<1>1. /\ worker'.step = "sent" /\ worker'.token = worker.token
      /\ worker'.result = IF result = "succeeded" THEN "told_ok" ELSE "told_failed"
  BY DEF IInv, Types, WorkerType
<1>2. worker.token \in Token /\ worker.token # NoToken /\ worker.token <= ops
  BY DEF StatusInv, WorkerFate, IInv, Types, WorkerType
<1>3. /\ outcome'[worker.token] = result
      /\ \A t \in Token : t # worker.token => outcome'[t] = outcome[t]
  BY <1>2 DEF IInv, Types, CountTypes
<1>4. HasTold' /\ ~Reported /\ ~Reported'
  BY <1>1 DEF HasTold, Reported
<1>5. WorkerFate'
  BY <1>1, <1>2, <1>3, <1>4 DEF WorkerFate
<1>6. JobToken'
  BY NothingYet DEF JobToken, NotWorking
<1>7. StatusTypes' /\ Mail' /\ Shown' /\ Remembered'
  BY <1>1, <1>3, <1>4, QuietStep
<1>8. QED
  BY <1>5, <1>6, <1>7 DEF StatusInv

LEMMA TakeResultStatus == ASSUME IInv, StatusInv, TakeResult PROVE StatusInv'
<1>1. /\ inbox # << >> /\ Head(inbox).op = "refresh_result" /\ refresh /\ inbox' = Tail(inbox)
      /\ refresh' = FALSE /\ job = NotWorking
      /\ UNCHANGED <<active, last, killed, ops>>
  BY DEF TakeResult, Receives
<1>2. worker.step = "sent" /\ ~killed /\ ~HasTold
  BY <1>1, HeadLetter DEF StatusInv, WorkerFate
<1>3. CASE /\ Post(Cache, <<Phase(NoToken, "loading")>>) /\ UNCHANGED <<outcome, worker>>
           /\ job' = [NotWorking EXCEPT !.step = "load", !.op = "refresh", !.project = Home,
                                        !.token = worker.token, !.scan = worker.scan]
  <2> DEFINE cast == Phase(NoToken, "loading")
  <2>1. cast \in Cast /\ cast.type = "phase"
    BY DEF Phase, Cast, What
  <2>0. Post(Cache, <<cast>>)
    BY <1>3
  <2> HIDE DEF cast
  <2>2. <<cast>> \in Seq(Cast) /\ \A k \in DOMAIN <<cast>> : <<cast>>[k] = cast
    BY <2>1
  <2>3. /\ StatusTypes' /\ Longer
        /\ \A q \in Process : \A i : New(q, i) =>
             q = Cache /\ \E k \in DOMAIN <<cast>> : mail'[q][i] = <<cast>>[k]
        /\ Tracked => \A k \in DOMAIN <<cast>> : \E i : New(Cache, i) /\ mail'[Cache][i] = <<cast>>[k]
    BY <1>1, <2>0, <2>2, Posted, Processes DEF StatusInv
  <2>4. \A q \in Process : \A i : New(q, i) => mail'[q][i] = cast
    BY <2>2, <2>3
  <2>5. \A q \in Process : \A i : New(q, i) => Kind(q, i)'
    BY <2>1, <2>4 DEF Kind, Genuine
  <2>6. /\ \A p \in Process, t \in Token :
             Owned(p, t) /\ Over(p, t) => Over(p, t)' /\ outcome'[t] = outcome[t]
        /\ \A p \in Process, t \in Token : Owned(p, t) /\ Over(p, t)' => Over(p, t)
        /\ (HasTold' <=> HasTold)
    BY <1>3 DEF Over, Reported, HasTold
  <2>7. Mail' /\ Shown' /\ Remembered'
    BY <1>1, <1>3, <2>3, <2>5, <2>6, OwnersStep, Values DEF IInv
  <2>8. WorkerFate'
    BY <1>1, <1>3, HeadLetter, FateKept
  <2>9. job'.op = "refresh" /\ job'.token = worker.token
    BY <1>3 DEF NotWorking
  <2>10. JobToken'
    BY <1>1, <1>2, <1>3, <2>6, <2>9 DEF JobToken
  <2>11. QED
    BY <2>3, <2>7, <2>8, <2>10 DEF StatusInv
<1>4. CASE /\ outcome' = [outcome EXCEPT ![worker.token] = "failed"]
           /\ worker' = [worker EXCEPT !.result = "told_failed"]
           /\ UNCHANGED <<mail, job>>
  BY <1>1, <1>2, <1>4, ToldStatus DEF statusVars
<1>5. QED
  BY <1>3, <1>4 DEF TakeResult

\* A step of an operation of the cache: it begins one, or ends its own.
LEMMA CacheOwns ==
  ASSUME IInv, StatusInv, worker' = worker, (HasTold' <=> HasTold),
         NEW u \in Token, u # worker.token, ops' \in {ops, ops + 1},
         \A t \in Token : t # u /\ t # worker.token => outcome'[t] = outcome[t],
         HasTold => outcome'[worker.token] = outcome[worker.token],
         u <= ops /\ u # worker.token => outcome[u] = "running",
         u <= ops' => outcome'[u] = "running" \/ Announced(Cache, u),
         ops' = ops + 1 => u = ops + 1,
         UNCHANGED <<active, last>>, Longer, StatusTypes', killed => killed',
         \A p \in Process : \A i : New(p, i) => Kind(p, i)'
  PROVE  Mail' /\ Shown' /\ Remembered'
<1>1. ops \in Nat /\ worker.token \in Nat /\ worker.token <= ops /\ \A t \in Token : t \in Nat
  BY Values, Bounds DEF IInv, StatusInv, WorkerFate
<1>2. (Reported' <=> Reported)
  BY DEF Reported
<1>3. \A p \in Process, t \in Token :
        Owned(p, t) /\ Over(p, t) => Over(p, t)' /\ outcome'[t] = outcome[t]
  BY <1>2, Processes DEF Owned, Over, Reported
<1>4. \A p \in Process, t \in Token : Owned(p, t) /\ Over(p, t)' => Over(p, t) \/ Announced(p, t)
  BY <1>1, <1>2, Processes DEF Owned, Over
<1>5. QED
  BY <1>1, <1>3, <1>4, OwnersStep

LEMMA EndJobStatus ==
  ASSUME IInv, StatusInv, NEW result \in {"succeeded", "failed"}, EndJob(result),
         job.step # "receive", UNCHANGED <<active, last, inbox, refresh, killed, ops>>
  PROVE  StatusInv'
<1>1. job' = NotWorking /\ outcome' = [outcome EXCEPT ![job.token] = result]
  BY DEF EndJob
<1>2. CASE job.op = "refresh"
  <2>1. mail' = mail /\ worker' = [worker EXCEPT !.result = IF result = "succeeded" THEN "told_ok"
                                                                                     ELSE "told_failed"]
    BY <1>2 DEF EndJob
  <2>2. job.token = worker.token /\ worker.step = "sent" /\ ~HasTold /\ ~killed /\ ~refresh
    BY <1>2 DEF StatusInv, JobToken
  <2>3. QED
    BY <1>1, <2>1, <2>2, ToldStatus DEF statusVars
<1>3. CASE job.op # "refresh"
  <2>1. PICK u : u = job.token
    OBVIOUS
  <2>2. Owned(Cache, u) /\ outcome[u] = "running"
    BY <1>3, <2>1 DEF StatusInv, JobToken, IInv, Jobs, Types, JobType
  <2> DEFINE cast == Finished(u, result)
  <2>0. Post(Cache, <<cast>>) /\ worker' = worker
    BY <1>3, <2>1 DEF EndJob
  <2>3. u \in Token /\ u # worker.token /\ u <= ops
    BY <2>2, Processes DEF Owned
  <2>4. outcome'[u] = result /\ \A t \in Token : t # u => outcome'[t] = outcome[t]
    BY <1>1, <2>1, <2>3 DEF IInv, Types, CountTypes
  <2>5. cast \in Cast /\ cast.type = "finished" /\ cast.token = u /\ cast.what = result
    BY <2>3 DEF Finished, Cast, What
  <2> HIDE DEF cast
  <2>6. <<cast>> \in Seq(Cast) /\ 1 \in DOMAIN <<cast>> /\ <<cast>>[1] = cast
        /\ \A k \in DOMAIN <<cast>> : <<cast>>[k] = cast
    BY <2>5
  <2>7. /\ StatusTypes' /\ Longer
        /\ \A q \in Process : \A i : New(q, i) =>
             q = Cache /\ \E k \in DOMAIN <<cast>> : mail'[q][i] = <<cast>>[k]
        /\ Tracked => \A k \in DOMAIN <<cast>> : \E i : New(Cache, i) /\ mail'[Cache][i] = <<cast>>[k]
    BY <2>0, <2>6, Posted, Processes DEF StatusInv
  <2>8. Announced(Cache, u)
    BY <2>5, <2>6, <2>7 DEF Announced, Ends
  <2>9. \A q \in Process : \A i : New(q, i) => q = Cache /\ mail'[q][i] = cast
    BY <2>6, <2>7
  <2>10. Owned(Cache, u)' /\ Over(Cache, u)'
    BY <2>0, <2>2, <2>4, Processes DEF Owned, Over
  <2>11. \A q \in Process : \A i : New(q, i) => Kind(q, i)'
    <3>1. ASSUME NEW q \in Process, NEW i, New(q, i) PROVE Kind(q, i)'
      <4>1. q = Cache /\ mail'[q][i] = cast
        BY <2>9, <3>1
      <4>2. QED
        BY <2>4, <2>5, <2>10, <4>1 DEF Kind, Genuine, Owned, Over
    <3>2. QED
      BY <3>1
  <2>12. (HasTold' <=> HasTold) /\ (HasTold => outcome'[worker.token] = outcome[worker.token])
    BY <2>0, <2>3, <2>4 DEF HasTold, StatusInv, WorkerFate, IInv, Types, WorkerType
  <2>13. Mail' /\ Shown' /\ Remembered'
    BY <2>0, <2>2, <2>3, <2>4, <2>7, <2>8, <2>11, <2>12, CacheOwns, Values DEF IInv
  <2>14. worker.token # NoToken => outcome'[worker.token] = outcome[worker.token]
    BY <2>3, <2>4 DEF IInv, Types, WorkerType
  <2>15. WorkerFate'
    BY <2>0, <2>12, <2>14 DEF StatusInv, WorkerFate
  <2>16. JobToken'
    BY <1>1, NothingYet DEF JobToken, NotWorking
  <2>17. QED
    BY <2>7, <2>13, <2>15, <2>16 DEF StatusInv
<1>4. QED
  BY <1>2, <1>3

LEMMA FinishStatus ==
  ASSUME IInv, StatusInv, FailJob \/ Publish \/ Prove
  PROVE  StatusInv'
<1>1. PICK result \in {"succeeded", "failed"} : EndJob(result)
  BY DEF FailJob, Publish, Prove
<1>2. /\ job.step # "receive" /\ UNCHANGED <<active, last, inbox, refresh, killed, ops>>
  BY DEF FailJob, Publish, Prove, cache
<1>3. QED
  BY <1>1, <1>2, EndJobStatus

\* A client's operation begins: u is its token.
LEMMA BeginStatus ==
  ASSUME IInv, StatusInv, NEW u \in Token, u = ops + 1, ops' = u,
         NEW casts \in Seq(Cast), Post(Cache, casts),
         \A k \in DOMAIN casts :
           /\ casts[k].type # "finished"
           /\ casts[k].type = "started" => casts[k].token = u
           /\ casts[k].type = "cancelled" => casts[k].what = Worker /\ refresh,
         outcome'[u] = "running",
         \A t \in Token : t # u => 
           \/ outcome'[t] = outcome[t]
           \/ /\ refresh' # refresh /\ t = worker.token
              /\ outcome[t] = "running" /\ outcome'[t] = "superseded",
         worker.token \in Token /\ refresh' # refresh => outcome'[worker.token] # "running",
         \/ refresh' = refresh /\ killed' = killed
         \/ refresh' = FALSE /\ refresh = TRUE /\ killed' = TRUE,
         \A k \in DOMAIN casts : casts[k].type = "cancelled" => killed',
         inbox # <<>>, Later(inbox'),
         job'.op \in {"parse", "query"}, job'.token = u,
         UNCHANGED <<active, last, worker>>
  PROVE  StatusInv'
<1>1. /\ ops \in Nat /\ worker.token \in Nat /\ worker.token <= ops
      /\ u # worker.token /\ \A t \in Token : t \in Nat
  BY Values, Bounds DEF IInv, StatusInv, WorkerFate
<1>2. HasTold' <=> HasTold
  BY DEF HasTold
<1>3. /\ StatusTypes' /\ Longer
      /\ \A q \in Process : \A i : New(q, i) => q = Cache /\ \E k \in DOMAIN casts : mail'[q][i] = casts[k]
  BY Posted, Processes DEF StatusInv
<1>4. ASSUME NEW q \in Process, NEW i, New(q, i) PROVE Kind(q, i)'
  <2>1. PICK k \in DOMAIN casts : q = Cache /\ mail'[q][i] = casts[k]
    BY <1>3, <1>4
  <2>2. PICK c : c = casts[k]
    OBVIOUS
  <2>3. /\ c.type # "finished" /\ c.type = "started" => c.token = u
    BY <2>2
  <2>4. c.type = "started" => c.token = u
    BY <2>2
  <2>5. c.type = "cancelled" => killed' /\ c.what = Worker
    BY <2>2
  <2>6. QED
    BY <1>1, <2>1, <2>2, <2>4, <2>5, Processes DEF Kind, Genuine, Owned, Over
<1>5. HasTold => ~refresh /\ refresh' = refresh /\ outcome[worker.token] # "running"
                 /\ worker.token \in Token
  BY DEF StatusInv, WorkerFate, IInv, Types, SnapshotTypes, WorkerType
<1>6. HasTold => outcome'[worker.token] = outcome[worker.token]
  BY <1>1, <1>5
<1>7. /\ \A t \in Token : t # u /\ t # worker.token => outcome'[t] = outcome[t]
      /\ ops' \in {ops, ops + 1} /\ (ops' = ops + 1 => u = ops + 1)
      /\ (u <= ops => FALSE) /\ killed => killed'
  BY <1>1
<1>8. killed => killed'
  OBVIOUS
<1>9. Mail' /\ Shown' /\ Remembered'
  BY <1>1, <1>2, <1>3, <1>4, <1>6, <1>7, <1>8, CacheOwns
<1>10. WorkerFate'
  <2>1. refresh' => \A i \in DOMAIN inbox' : inbox'[i].op = "refresh_result" => worker.step = "sent"
    BY DEF Later, StatusInv, WorkerFate
  <2>2. CASE refresh' = refresh /\ killed' = killed
    <3>1. worker.token \in Token => outcome'[worker.token] = outcome[worker.token]
      BY <1>1, <2>2
    <3>2. worker.token # NoToken => worker.token \in Token
      BY DEF IInv, Types, WorkerType
    <3>3. QED
      BY <1>1, <1>2, <2>1, <2>2, <3>1, <3>2 DEF StatusInv, WorkerFate
  <2>3. CASE refresh' = FALSE /\ refresh = TRUE /\ killed' = TRUE
    <3>1. ~HasTold /\ ~killed /\ worker.step # "none"
      BY <2>3 DEF StatusInv, WorkerFate
    <3>2. worker.token # NoToken => outcome[worker.token] \in {"running", "crashed"}
      BY <3>1 DEF StatusInv, WorkerFate
    <3>3. worker.token # NoToken => outcome'[worker.token] \in {"superseded", "crashed"}
      BY <1>1, <2>3, <3>2 DEF IInv, Types, WorkerType
    <3>4. QED
      BY <1>1, <1>2, <2>3, <3>1, <3>3 DEF StatusInv, WorkerFate
  <2>4. QED
    BY <2>2, <2>3
<1>11. JobToken'
  BY <1>1, Processes DEF JobToken, Owned
<1>12. QED
  BY <1>3, <1>9, <1>10, <1>11 DEF StatusInv

LEMMA BeginQueryStatus == ASSUME IInv, StatusInv, BeginQuery PROVE StatusInv'
<1>1. /\ inbox # << >> /\ Head(inbox).op = "query" /\ inbox' = Tail(inbox) /\ ops' = ops + 1
      /\ job'.op = "query" /\ job'.token = ops + 1
      /\ outcome' = [outcome EXCEPT ![ops + 1] = "running"]
      /\ UNCHANGED <<active, last, refresh, killed, worker>>
  BY DEF BeginQuery, Receives, cache, refresher
<1>2. ops + 1 \in Token
  BY <1>1, NextToken DEF Request
<1>3. PICK u \in Token : u = ops + 1
  BY <1>2
<1> DEFINE cast == Started(u, "query")
<1>4. Post(Cache, <<cast>>)
  BY <1>3 DEF BeginQuery
<1>5. cast \in Cast /\ cast.type = "started" /\ cast.token = u
  BY DEF Started, Cast, What
<1> HIDE DEF cast
<1>6. <<cast>> \in Seq(Cast) /\ \A k \in DOMAIN <<cast>> : <<cast>>[k] = cast
  BY <1>5
<1>7. outcome'[u] = "running" /\ \A t \in Token : t # u => outcome'[t] = outcome[t]
  BY <1>1, <1>3 DEF IInv, Types, CountTypes
<1>8. Later(inbox')
  BY <1>1, HeadLetter
<1>9. QED
  BY <1>1, <1>3, <1>4, <1>5, <1>6, <1>7, <1>8, BeginStatus

LEMMA BeginParseStatus == ASSUME IInv, StatusInv, BeginParse PROVE StatusInv'
<1>1. /\ inbox # << >> /\ Head(inbox).op = "parse" /\ ops' = ops + 1
      /\ job'.op = "parse" /\ job'.token = ops + 1
      /\ refresh' = FALSE /\ killed' = (killed \/ refresh)
      /\ inbox' = (IF refresh THEN Flushed(Tail(inbox)) ELSE Tail(inbox))
      /\ UNCHANGED <<active, last, worker>>
  BY DEF BeginParse, Receives, CancelRefresh
<1>2. ops + 1 \in Token
  BY <1>1, NextToken DEF Request
<1>3. PICK u \in Token : u = ops + 1
  BY <1>2
<1> DEFINE a == Started(u, "parse")
           b == Phase(u, "extracting")
           c == Cancelled(Worker)
<1>4. PICK front : front = IF refresh THEN <<c>> ELSE <<>>
  OBVIOUS
<1>5. Post(Cache, front \o <<a, b>>)
  BY <1>3, <1>4 DEF BeginParse
<1>6. /\ a \in Cast /\ a.type = "started" /\ a.token = u /\ b \in Cast /\ b.type = "phase"
      /\ c \in Cast /\ c.type = "cancelled" /\ c.what = Worker
  BY DEF Started, Phase, Cancelled, Cast, What
<1>7. refresh \in BOOLEAN /\ killed \in BOOLEAN
  BY DEF IInv, Types, SnapshotTypes
<1>8. PICK s : s = front \o <<a, b>>
  OBVIOUS
<1> HIDE DEF a, b, c
<1>9. /\ s \in Seq(Cast)
      /\ \A k \in DOMAIN s : s[k] \in {a, b} \/ (refresh /\ s[k] = c)
  <2>1. /\ front \in Seq(Cast) /\ Len(front) \in Nat
        /\ \A k \in 1 .. Len(front) : refresh /\ front[k] = c
    BY <1>4, <1>6
  <2>2. /\ <<a, b>> \in Seq(Cast) /\ Len(<<a, b>>) = 2
        /\ \A k \in 1 .. 2 : <<a, b>>[k] \in {a, b}
    BY <1>6
  <2>3. PICK r : r = <<a, b>>
    OBVIOUS
  <2>4. s \in Seq(Cast) /\ Len(s) = Len(front) + 2 /\ DOMAIN s = 1 .. Len(front) + 2
    BY <1>8, <2>1, <2>2
  <2>5. ASSUME NEW k \in DOMAIN s PROVE s[k] \in {a, b} \/ (refresh /\ s[k] = c)
    <3>1. CASE k <= Len(front)
      BY <1>8, <2>1, <2>2, <2>4, <3>1
    <3>2. CASE ~(k <= Len(front))
      <4>1. k - Len(front) \in 1 .. 2 /\ r \in Seq(Cast) /\ Len(r) = 2
        BY <2>1, <2>2, <2>3, <2>4, <3>2
      <4>2. s[k] = r[k - Len(front)]
        BY <1>8, <2>1, <2>3, <2>4, <3>2, <4>1
      <4>3. QED
        BY <2>2, <2>3, <4>1, <4>2
    <3>3. QED
      BY <3>1, <3>2
  <2>6. QED
    BY <2>4, <2>5
<1>10. outcome' = [t \in Token |->
          CASE t = u -> "running"
            [] refresh /\ t = worker.token /\ outcome[t] = "running" -> "superseded"
            [] OTHER -> outcome[t]]
  BY <1>3 DEF BeginParse
<1>11. worker.token # u
  BY <1>3, Values, Bounds DEF IInv, StatusInv, WorkerFate
<1>12. /\ outcome'[u] = "running"
       /\ \A t \in Token : t # u =>
            \/ outcome'[t] = outcome[t]
            \/ /\ refresh /\ t = worker.token
               /\ outcome[t] = "running" /\ outcome'[t] = "superseded"
  <2>1. outcome'[u] = "running"
    BY <1>10, <1>11
  <2>2. ASSUME NEW t \in Token, t # u
        PROVE  outcome'[t] = IF refresh /\ t = worker.token /\ outcome[t] = "running"
                             THEN "superseded" ELSE outcome[t]
    BY <1>10, <2>2
  <2>3. QED
    BY <2>1, <2>2
<1>13. worker.token \in Token /\ refresh => outcome'[worker.token] # "running"
  BY <1>10, <1>11
<1>14. Later(inbox')
  BY <1>1, TailIsLater, FlushedIsLater DEF IInv, Types
<1>15. \/ refresh' = refresh /\ killed' = killed
       \/ refresh' = FALSE /\ refresh = TRUE /\ killed' = TRUE
  BY <1>1, <1>7
<1>16. Post(Cache, s)
  BY <1>5, <1>8
<1>17. \A k \in DOMAIN s :
           /\ s[k].type # "finished"
           /\ s[k].type = "started" => s[k].token = u
           /\ s[k].type = "cancelled" => s[k].what = Worker /\ refresh
  BY <1>6, <1>9
<1>18. \A k \in DOMAIN s : s[k].type = "cancelled" => killed'
  BY <1>1, <1>17
<1>19. /\ \A t \in Token : t # u => 
           \/ outcome'[t] = outcome[t]
           \/ /\ refresh' # refresh /\ t = worker.token
              /\ outcome[t] = "running" /\ outcome'[t] = "superseded"
       /\ worker.token \in Token /\ refresh' # refresh => outcome'[worker.token] # "running"
  BY <1>1, <1>7, <1>12, <1>13
<1>20. QED
  BY <1>1, <1>3, <1>9, <1>12, <1>14, <1>15, <1>16, <1>17, <1>18, <1>19, BeginStatus

LEMMA WorkerStartStatus == ASSUME IInv, StatusInv, WorkerStart PROVE StatusInv'
<1>1. /\ worker.step = "spawned" /\ worker' = [worker EXCEPT !.step = "scan", !.token = ops + 1]
      /\ ops' = ops + 1
      /\ outcome' = [outcome EXCEPT ![ops + 1] = IF killed THEN "superseded" ELSE "running"]
      /\ UNCHANGED <<active, last, inbox, refresh, job, killed>>
  BY DEF WorkerStart, cache
<1>2. worker.token = NoToken /\ ~HasTold /\ ~Reported
  BY <1>1 DEF StatusInv, WorkerFate, Reported
<1>3. ops \in Nat /\ ops + 1 \in Token
  <2>1. Begun = ops /\ ops <= calls
    BY <1>2 DEF IInv, Counting, Begun
  <2>2. QED
    BY <2>1, Values, Bounds DEF IInv, Token
<1>4. PICK u \in Token : u = ops + 1
  BY <1>3
<1>5. worker'.step = "scan" /\ worker'.token = u /\ worker'.result = worker.result
  BY <1>1, <1>4 DEF IInv, Types, WorkerType
<1>6. ~HasTold' /\ ~Reported'
  BY <1>2, <1>5 DEF HasTold, Reported
<1>7. /\ outcome'[u] = IF killed THEN "superseded" ELSE "running"
      /\ \A t \in Token : t # u => outcome'[t] = outcome[t]
  BY <1>1, <1>4 DEF IInv, Types, CountTypes
<1> DEFINE a == Started(u, "parse")
           b == Phase(u, "extracting")
<1>8. Post(Worker, <<a, b>>)
  BY <1>4 DEF WorkerStart
<1>9. a \in Cast /\ a.type = "started" /\ a.token = u /\ b \in Cast /\ b.type = "phase"
  BY DEF Started, Phase, Cast, What
<1> HIDE DEF a, b
<1>10. <<a, b>> \in Seq(Cast) /\ \A k \in DOMAIN <<a, b>> : <<a, b>>[k] \in {a, b}
  BY <1>9
<1>11. /\ StatusTypes' /\ Longer
       /\ \A q \in Process : \A i : New(q, i) =>
            q = Worker /\ \E k \in DOMAIN <<a, b>> : mail'[q][i] = <<a, b>>[k]
  BY <1>1, <1>8, <1>10, Posted, Processes DEF StatusInv
<1>12. \A q \in Process : \A i : New(q, i) => q = Worker /\ mail'[q][i] \in {a, b}
  BY <1>10, <1>11
<1>13. ASSUME NEW q \in Process, NEW i, New(q, i) PROVE Kind(q, i)'
  <2>1. q = Worker /\ mail'[q][i] \in {a, b}
    BY <1>12, <1>13
  <2>2. u \in Token /\ u <= ops'
    BY <1>1, <1>3, <1>4
  <2>3. QED
    BY <1>5, <1>6, <1>9, <2>1, <2>2 DEF Kind, Genuine, Owned, Over
<1>14. \A t \in Token : t <= ops => t # u /\ t # NoToken
  BY <1>3, <1>4, Bounds DEF Token
<1>15. \A p \in Process, t \in Token :
         /\ Owned(p, t) /\ Over(p, t) => Over(p, t)' /\ outcome'[t] = outcome[t]
         /\ Owned(p, t) /\ Over(p, t)' => Over(p, t)
  BY <1>2, <1>6, <1>7, <1>14 DEF Owned, Over
<1>16. worker.step # "dead" /\ (killed => killed' /\ (HasTold' <=> HasTold))
       /\ ops' \in Nat /\ ops <= ops'
  BY <1>1, <1>2, <1>3, <1>6
<1>17. Mail' /\ Shown' /\ Remembered'
  BY <1>1, <1>2, <1>3, <1>5, <1>11, <1>13, <1>14, <1>15, <1>16, OwnersStep
<1>18. WorkerFate'
  <2>1. refresh => \A i \in DOMAIN inbox : inbox[i].op # "refresh_result"
    BY <1>1 DEF StatusInv, WorkerFate
  <2>2. worker'.token <= ops' /\ worker'.token # NoToken
    BY <1>1, <1>3, <1>4, <1>5, Bounds DEF Token
  <2>3. killed => ~refresh
    BY DEF StatusInv, WorkerFate
  <2>4. QED
    BY <1>1, <1>5, <1>6, <1>7, <2>1, <2>2, <2>3 DEF WorkerFate
<1>19. JobToken'
  <2>1. job.op # "refresh"
    BY <1>1 DEF StatusInv, JobToken
  <2>2. job.op \in {"parse", "query"} => job.token \in Token /\ job.token <= ops
                                         /\ outcome[job.token] = "running"
    BY DEF StatusInv, JobToken, Owned
  <2>3. job.op \in {"parse", "query"} => job.token # u /\ job.token <= ops'
    BY <1>1, <1>3, <1>14, <2>2, Bounds
  <2>4. QED
    BY <1>1, <1>5, <1>7, <2>1, <2>2, <2>3, Processes DEF StatusInv, JobToken, Owned
<1>20. QED
  BY <1>11, <1>17, <1>18, <1>19 DEF StatusInv

LEMMA WorkerGoesOnStatus ==
  ASSUME IInv, StatusInv, WorkerScan \/ WorkerSend
  PROVE  StatusInv'
<1>1. /\ UNCHANGED <<statusVars, job, killed, ops, outcome, refresh>>
      /\ worker'.token = worker.token /\ ~HasTold /\ ~HasTold'
      /\ worker.token # NoToken /\ job.op # "refresh"
      /\ worker.step \in {"scan", "scanned"} /\ worker'.step \in {"scanned", "sent"}
  <2>1. CASE WorkerScan
    <3>1. worker.step = "scan" /\ ~HasTold /\ worker.token # NoToken /\ job.op # "refresh"
      BY <2>1 DEF WorkerScan, StatusInv, WorkerFate, JobToken
    <3>2. PICK result \in {"ok", "error"} :
            worker' = [worker EXCEPT !.step = "scanned", !.result = result, !.scan = tree[Home]]
      BY <2>1 DEF WorkerScan
    <3>3. worker'.token = worker.token /\ worker'.step = "scanned" /\ worker'.result = result
      BY <3>2 DEF IInv, Types, WorkerType
    <3>4. QED
      BY <2>1, <3>1, <3>3 DEF WorkerScan, HasTold, cache, history
  <2>2. CASE WorkerSend
    <3>1. worker.step = "scanned" /\ ~HasTold /\ worker.token # NoToken /\ job.op # "refresh"
      BY <2>2 DEF WorkerSend, StatusInv, WorkerFate, JobToken
    <3>2. /\ worker'.token = worker.token /\ worker'.step = "sent"
          /\ worker'.result = worker.result
      BY <2>2 DEF WorkerSend, IInv, Types, WorkerType
    <3>3. QED
      BY <2>2, <3>1, <3>2 DEF WorkerSend, HasTold, cache, history
  <2>3. QED
    BY <2>1, <2>2
<1>2. refresh => \A i \in DOMAIN inbox' : inbox'[i].op = "refresh_result" => worker'.step = "sent"
  <2>1. CASE WorkerScan
    BY <1>1, <2>1 DEF WorkerScan, StatusInv, WorkerFate
  <2>2. CASE WorkerSend
    BY <2>2 DEF WorkerSend, IInv, Types, WorkerType
  <2>3. QED
    BY <2>1, <2>2
<1>3. WorkerFate'
  BY <1>1, <1>2 DEF StatusInv, WorkerFate
<1>4. JobToken'
  BY <1>1 DEF StatusInv, JobToken, Owned
<1>5. ~Reported /\ ~Reported'
  BY <1>1 DEF Reported
<1>6. StatusTypes' /\ Mail' /\ Shown' /\ Remembered'
  BY <1>1, <1>5, QuietStep
<1>7. QED
  BY <1>3, <1>4, <1>6 DEF StatusInv

LEMMA WorkerFinishStatus == ASSUME IInv, StatusInv, WorkerFinish PROVE StatusInv'
<1>1. /\ worker.step = "sent" /\ HasTold /\ worker' = [worker EXCEPT !.step = "dead"]
      /\ UNCHANGED <<active, last, inbox, job, killed, ops, outcome, refresh>>
  BY DEF WorkerFinish, HasTold, cache, history
<1>2. /\ ~killed /\ ~refresh /\ job.op # "refresh" /\ worker.token # NoToken /\ worker.token <= ops
      /\ outcome[worker.token] = IF worker.result = "told_ok" THEN "succeeded" ELSE "failed"
  BY <1>1 DEF StatusInv, WorkerFate, JobToken
<1>3. worker'.step = "dead" /\ worker'.token = worker.token /\ worker'.result = worker.result
  BY <1>1 DEF IInv, Types, WorkerType
<1>4. HasTold' /\ Reported' /\ ~Reported
  BY <1>1, <1>3 DEF HasTold, Reported
<1>5. PICK u \in Token : u = worker.token
  BY <1>2 DEF IInv, Types, WorkerType
<1>6. PICK o \in {"succeeded", "failed"} : o = outcome[u]
  BY <1>2, <1>5
<1> DEFINE cast == Finished(u, o)
<1>7. Post(Worker, <<cast>>)
  BY <1>2, <1>5, <1>6 DEF WorkerFinish
<1>8. cast \in Cast /\ cast.type = "finished" /\ cast.token = u /\ cast.what = o
  BY DEF Finished, Cast, What
<1> HIDE DEF cast
<1>9. <<cast>> \in Seq(Cast) /\ 1 \in DOMAIN <<cast>> /\ <<cast>>[1] = cast
      /\ \A k \in DOMAIN <<cast>> : <<cast>>[k] = cast
  BY <1>8
<1>10. /\ StatusTypes' /\ Longer
       /\ \A q \in Process : \A i : New(q, i) =>
            q = Worker /\ \E k \in DOMAIN <<cast>> : mail'[q][i] = <<cast>>[k]
       /\ Tracked => \A k \in DOMAIN <<cast>> : \E i : New(Worker, i) /\ mail'[Worker][i] = <<cast>>[k]
  BY <1>1, <1>7, <1>9, Posted, Processes DEF StatusInv
<1>11. Announced(Worker, u)
  BY <1>8, <1>9, <1>10 DEF Announced, Ends
<1>12. \A q \in Process : \A i : New(q, i) => q = Worker /\ mail'[q][i] = cast
  BY <1>9, <1>10
<1>13. ASSUME NEW q \in Process, NEW i, New(q, i) PROVE Kind(q, i)'
  <2>1. q = Worker /\ mail'[q][i] = cast
    BY <1>12, <1>13
  <2>2. QED
    BY <1>1, <1>2, <1>3, <1>4, <1>5, <1>6, <1>8, <2>1 DEF Kind, Genuine, Owned, Over
<1>14. \A p \in Process, t \in Token :
         /\ Owned(p, t) /\ Over(p, t) => Over(p, t)' /\ outcome'[t] = outcome[t]
         /\ Owned(p, t) /\ Over(p, t)' => Over(p, t) \/ Announced(p, t)
  BY <1>1, <1>4, <1>5, <1>11 DEF Owned, Over
<1>15. Mail' /\ Shown' /\ Remembered'
  BY <1>1, <1>2, <1>3, <1>10, <1>13, <1>14, Values, OwnersStep DEF IInv
<1>16. WorkerFate'
  BY <1>1, <1>2, <1>3, <1>4 DEF WorkerFate
<1>17. JobToken'
  BY <1>1, <1>2, <1>3 DEF StatusInv, JobToken, Owned
<1>18. QED
  BY <1>10, <1>15, <1>16, <1>17 DEF StatusInv

LEMMA WorkerDiesStatus == ASSUME IInv, StatusInv, WorkerDies PROVE StatusInv'
<1>1. /\ Alive /\ (killed \/ worker.step \in {"spawned", "scan", "scanned"})
      /\ worker' = [worker EXCEPT !.step = "dead"]
      /\ inbox' = (IF refresh THEN Append(inbox, Message("down")) ELSE inbox)
      /\ outcome' = [t \in Token |-> IF t = worker.token /\ outcome[t] = "running"
                                     THEN "crashed" ELSE outcome[t]]
      /\ UNCHANGED <<statusVars, refresh, job, killed, ops>>
  BY DEF WorkerDies, cache
<1>2. /\ ~HasTold /\ worker.step # "dead" /\ worker.step # "none" /\ job.op # "refresh"
      /\ (killed => ~refresh) /\ worker.token <= ops
  BY <1>1 DEF StatusInv, WorkerFate, JobToken, Alive
<1>3. worker'.step = "dead" /\ worker'.token = worker.token /\ worker'.result = worker.result
  BY <1>1 DEF IInv, Types, WorkerType
<1>4. ~HasTold' /\ ~Reported' /\ ~Reported
  BY <1>2, <1>3 DEF HasTold, Reported
<1>5. worker.token # NoToken => worker.token \in Token
  BY DEF IInv, Types, WorkerType
<1>6. \A t \in Token : t # worker.token => outcome'[t] = outcome[t]
  BY <1>1
<1>7. worker.token # NoToken =>
        IF killed THEN outcome'[worker.token] \in {"superseded", "crashed"}
        ELSE outcome'[worker.token] = "crashed"
  <2>1. worker.token # NoToken =>
          IF killed THEN outcome[worker.token] \in {"superseded", "crashed"}
          ELSE outcome[worker.token] = "running"
    BY <1>2 DEF StatusInv, WorkerFate
  <2>2. QED
    BY <1>1, <1>5, <2>1
<1>8. refresh => \A i \in DOMAIN inbox' : inbox'[i].op # "refresh_result"
  <2>1. SUFFICES ASSUME refresh, NEW i \in DOMAIN inbox' PROVE inbox'[i].op # "refresh_result"
    OBVIOUS
  <2>2. \A j \in DOMAIN inbox : inbox[j].op # "refresh_result"
    BY <1>1, <1>2, <2>1 DEF StatusInv, WorkerFate
  <2>3. Message("down") \in Letter /\ Message("down").op = "down"
    BY DEF Letter, Message
  <2>4. inbox'[i].op = "down" \/ \E j \in DOMAIN inbox : inbox'[i] = inbox[j]
    BY <1>1, <2>1, <2>3, Sent DEF IInv
  <2>5. QED
    BY <2>2, <2>4
<1>9. WorkerFate'
  BY <1>1, <1>2, <1>3, <1>4, <1>7, <1>8 DEF WorkerFate
<1>10. JobToken'
  BY <1>1, <1>2, <1>3, <1>6, Processes DEF StatusInv, JobToken, Owned
<1>11. StatusTypes' /\ Mail' /\ Shown' /\ Remembered'
  BY <1>1, <1>2, <1>3, <1>4, <1>6, QuietStep
<1>12. QED
  BY <1>9, <1>10, <1>11 DEF StatusInv

LEMMA EmptyStatus ==
  /\ NoOperation \in Operation /\ NeverRan \in [operation : Operation, outcome : What]
  /\ [p \in Process |-> <<>>] \in [Process -> Seq(Cast)]
<1>1. NoOperation \in Operation
  BY DEF NoOperation, Operation, What
<1>2. NeverRan \in [operation : Operation, outcome : What]
  BY <1>1 DEF NeverRan, What
<1>3. <<>> \in Seq(Cast)
  OBVIOUS
<1>4. QED
  BY <1>1, <1>2, <1>3

LEMMA InitStatus == Init => StatusInv
<1> SUFFICES ASSUME Init PROVE StatusInv
  OBVIOUS
<1>1. /\ refresh = FALSE /\ job = NotWorking /\ worker = NoWorker /\ killed = FALSE /\ ops = 0
      /\ mail = [p \in Process |-> <<>>] /\ active = NoOperation /\ last = NeverRan
  BY DEF Init, StatusInit
<1>2. WorkerFate
  BY <1>1, NothingYet, Bounds DEF WorkerFate, HasTold
<1>3. JobToken
  BY <1>1, NothingYet DEF JobToken, NotWorking
<1>4. StatusTypes
  BY <1>1, EmptyStatus DEF StatusTypes, Idle
<1>5. Mail /\ Shown /\ Remembered
  BY <1>1 DEF Mail, Shown, Remembered, Idle
<1>6. QED
  BY <1>2, <1>3, <1>4, <1>5 DEF StatusInv

LEMMA RestartStatus == ASSUME Restart PROVE StatusInv'
<1>1. /\ refresh' = FALSE /\ job' = NotWorking /\ worker' = NoWorker /\ killed' = FALSE /\ ops' = 0
      /\ mail' = [p \in Process |-> <<>>] /\ active' = NoOperation /\ last' = NeverRan
  BY DEF Restart, Boot
<1>2. WorkerFate'
  BY <1>1, NothingYet, Bounds DEF WorkerFate, HasTold
<1>3. JobToken'
  BY <1>1, NothingYet DEF JobToken, NotWorking
<1>4. StatusTypes'
  BY <1>1, EmptyStatus DEF StatusTypes, Idle
<1>5. Mail' /\ Shown' /\ Remembered'
  BY <1>1 DEF Mail, Shown, Remembered, Idle
<1>6. QED
  BY <1>2, <1>3, <1>4, <1>5 DEF StatusInv

LEMMA NextStatus == ASSUME IInv, StatusInv, [Next]_vars PROVE StatusInv'
<1>1. CASE CacheStep
  BY <1>1, OutsideStatus, StartRefreshStatus, TakeResultStatus, FinishStatus, BeginQueryStatus,
     BeginParseStatus DEF CacheStep
<1>2. CASE WorkerStep \/ WorkerDies
  BY <1>2, WorkerStartStatus, WorkerGoesOnStatus, WorkerFinishStatus, WorkerDiesStatus DEF WorkerStep
<1>3. CASE TrackerStep
  BY <1>3, TrackerStatus
<1>4. CASE \/ \E c \in Client : GiveUp(c) \/ \E op \in Request, p \in Project \union {NoProject} : Ask(c, op, p)
           \/ \E p \in Project : Edit(p)
  BY <1>4, OutsideStatus
<1>5. CASE Restart
  BY <1>5, RestartStatus
<1>6. CASE UNCHANGED vars
  BY <1>6, ApartStatus DEF vars, cache, refresher, history
<1>7. QED
  BY <1>1, <1>2, <1>3, <1>4, <1>5, <1>6 DEF Next

LEMMA StatusInvariance == Spec => []StatusInv
<1>1. IInv /\ StatusInv /\ [Next]_vars => StatusInv'
  BY NextStatus
<1>2. QED
  BY <1>1, InitStatus, Invariance, PTL DEF Spec

\* symbolic_operation_status: when every cast has arrived, an operation the
\* tracker still shows is one that has not ended, whichever way it could have.
THEOREM NoGhosts == Spec => []NoGhostOperation
<1>1. StatusInv => NoGhostOperation
  <2> SUFFICES ASSUME StatusInv, Settled, ~Idle PROVE outcome[active.token] = "running"
    BY DEF NoGhostOperation
  <2>1. active.owner \in {Cache, Worker} /\ Owned(active.owner, active.token)
    BY ShownOwner, Processes DEF StatusInv, Shown
  <2>2. mail[active.owner] = <<>>
    BY <2>1, Processes DEF Settled
  <2>3. ~Over(active.owner, active.token)
    BY <2>2 DEF StatusInv, Shown
  <2>4. CASE active.owner = Cache
    BY <2>3, <2>4, Processes DEF Over
  <2>5. CASE active.owner = Worker
    <3>1. active.token = worker.token /\ worker.token # NoToken
      BY <2>1, <2>5, Bounds DEF Owned, Token
    <3>2. worker.step # "dead" /\ worker.step # "none"
      BY <2>5, <3>1 DEF Settled, StatusInv, WorkerFate
    <3>3. ~HasTold
      BY <3>2 DEF Settled, Told, HasTold, StatusInv, WorkerFate
    <3>4. ~killed
      BY <3>2 DEF Settled, Alive
    <3>5. QED
      BY <3>1, <3>2, <3>3, <3>4 DEF StatusInv, WorkerFate
  <2>6. QED
    BY <2>1, <2>4, <2>5
<1>2. QED
  BY <1>1, StatusInvariance, PTL

\* complete/2: the outcome shown of the last operation is the one it had.
THEOREM LastOutcomeShown == Spec => []LastOutcomeIsTrue
<1>1. StatusInv => LastOutcomeIsTrue
  <2> SUFFICES ASSUME StatusInv, last # NeverRan
               PROVE  \/ last.outcome = outcome[last.operation.token]
                      \/ {last.outcome, outcome[last.operation.token]} = {"superseded", "crashed"}
    BY DEF LastOutcomeIsTrue
  <2> DEFINE t == last.operation.token
  <2>1. Ended(t, last.outcome)
    BY DEF StatusInv, Remembered
  <2>2. CASE t # worker.token \/ HasTold
    BY <2>1, <2>2 DEF Ended
  <2>3. CASE t = worker.token /\ ~HasTold
    <3>1. worker.token # NoToken /\ last.outcome \in {"superseded", "crashed"}
          /\ (killed \/ worker.step = "dead")
      BY <2>1, <2>3, Bounds DEF Ended, Token
    <3>2. outcome[t] \in {"superseded", "crashed"}
      BY <2>3, <3>1 DEF StatusInv, WorkerFate
    <3>3. QED
      BY <3>1, <3>2
  <2>4. QED
    BY <2>2, <2>3
<1>2. QED
  BY <1>1, StatusInvariance, PTL
===============================================================================
