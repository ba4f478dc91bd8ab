---------------------------- MODULE AppServerProofs ----------------------------
(***************************************************************************)
(* Proofs about one app-server: its process and the transport to it.        *)
(*                                                                          *)
(* AppServer: no member of its group survives, no other group is signalled  *)
(* and nothing is left behind, for every set of descendants.  JsonlReader:  *)
(* every notification is returned once and in the order it was written, and *)
(* what is counted as pending is what is pending and within the limits, for *)
(* any number of calls, any limits and anything the app-server writes.      *)
(***************************************************************************)
EXTENDS AppServer, JsonlReader, ListsProofs, SequenceTheorems, TLAPS

-------------------------------------------------------------------------------
(* The process. *)

Launching == {"verify", "check", "open", "cwd", "provision", "spawn"}
Late == {"join"} \cup Cleaning \cup Returned

\* What the launch has established, step by step.
LaunchInOrder ==
    /\ pc \in Launching => \A p \in Proc : proc[p] = "none"
    /\ pc \in Launching => member = {} /\ drain = "none" /\ child = "none" /\ result = "none"
    /\ pc \in {"check", "open", "cwd", "provision", "spawn"} => exe = Pinned
    /\ pc \in {"cwd", "provision", "spawn"} => auth = "private"

\* A member is a process that was started; after the kill none of them runs.
GroupIsDown ==
    /\ \A p \in member : proc[p] # "none"
    /\ pc \notin {"flow", "kill"} => \A p \in member : ~Up(p)

\* The leader is reaped, by whomever, only when no signal is left to send, and the number of its
\* group is free only then.
ReapedLate ==
    /\ child = "dropped" \/ proc[Leader] = "gone" => pc \in Late
    /\ reused # "no" => proc[Leader] = "gone"
    /\ OwnGroupOnly

\* What the end of the caller relies on.
EndsClean ==
    /\ pc = "flow" => result = "none"
    /\ pc \in Cleaning \cup {"done"} => drain # "reading"
    /\ pc = "done" /\ result \in {"ok", "spawn"} => cwd = "gone" /\ copy = Nothing

IInv ==
    /\ TypeOK
    /\ LaunchInOrder
    /\ GroupIsDown
    /\ ReapedLate
    /\ RunsWhatWasVerified
    /\ EndsClean

-------------------------------------------------------------------------------
USE DEF Nothing

LEMMA InitIInv == Init => IInv
  BY AppServerAssumption DEF Init, IInv, TypeOK, LaunchInOrder, GroupIsDown, ReapedLate,
     RunsWhatWasVerified, EndsClean, OwnGroupOnly, Launching, Late, Proc, FileKind, Cleaning,
     Returned, Up

\* The steps of the launch: nothing runs yet.
LEMMA LaunchKeeps ==
    ASSUME IInv, Verify \/ CheckAuth \/ OpenAuth \/ MakeCwd \/ Provision
    PROVE  IInv'
  <1> USE AppServerAssumption DEF IInv, sources, handles, directory, kernel
  <1>1. TypeOK'
    BY DEF TypeOK, FileKind, Cleaning, Returned, Verify, CheckAuth, OpenAuth, MakeCwd, Provision,
       Goto, Fail, SpawnFails
  <1>2. LaunchInOrder'
    BY DEF TypeOK, LaunchInOrder, Launching, Verify, CheckAuth, OpenAuth, MakeCwd, Provision,
       Goto, Fail, SpawnFails, FileKind
  <1>3. GroupIsDown'
    BY DEF GroupIsDown, Up, Verify, CheckAuth, OpenAuth, MakeCwd, Provision, Goto, Fail, SpawnFails
  <1>4. ReapedLate'
    BY DEF TypeOK, LaunchInOrder, Launching, ReapedLate, OwnGroupOnly, Late, Cleaning, Returned,
           Proc,
       Verify, CheckAuth, OpenAuth, MakeCwd, Provision, Goto, Fail, SpawnFails
  <1>5. RunsWhatWasVerified'
    BY DEF LaunchInOrder, Launching, RunsWhatWasVerified, Proc,
       Verify, CheckAuth, OpenAuth, MakeCwd, Provision, Goto, Fail, SpawnFails
  <1>6. EndsClean'
    BY DEF LaunchInOrder, Launching, EndsClean, Cleaning, Verify, CheckAuth, OpenAuth, MakeCwd,
       Provision, Goto, Fail, SpawnFails
  <1> QED BY <1>1, <1>2, <1>3, <1>4, <1>5, <1>6

LEMMA SpawnKeeps == ASSUME IInv, Spawn PROVE IInv'
  <1> USE AppServerAssumption DEF IInv, Spawn, SpawnFails, sources, handles, directory, kernel
  <1>1. TypeOK'
    BY DEF TypeOK, FileKind, Cleaning, Returned, Proc
  <1>2. LaunchInOrder'
    BY DEF LaunchInOrder, Launching
  <1>3. GroupIsDown'
    BY DEF TypeOK, GroupIsDown, Up, Proc
  <1>4. ReapedLate'
    BY DEF TypeOK, LaunchInOrder, Launching, ReapedLate, OwnGroupOnly, Late, Cleaning, Proc
  <1>5. RunsWhatWasVerified'
    BY DEF LaunchInOrder, Launching, RunsWhatWasVerified, Proc
  <1>6. EndsClean'
    BY DEF LaunchInOrder, Launching, EndsClean, Cleaning
  <1> QED BY <1>1, <1>2, <1>3, <1>4, <1>5, <1>6

\* A signal to the group stops every member of it and no later group.
LEMMA KillGroupStops ==
    ASSUME IInv, KillGroup, pc \in {"flow", "kill"}
    PROVE  /\ proc' \in [Proc -> {"none", "up", "dying", "zombie", "gone"}]
           /\ member' = member /\ piped' = piped /\ reused' = reused
           /\ \A p \in member : proc'[p] # "none" /\ proc'[p] # "up"
           /\ \A p \in Proc : proc'[p] = proc[p] \/ (proc[p] = "up" /\ proc'[p] = "dying")
  BY AppServerAssumption DEF IInv, TypeOK, KillGroup, Up, GroupIsDown, ReapedLate, Late, Cleaning,
     Returned, Proc

LEMMA KillKeeps == ASSUME IInv, Kill PROVE IInv'
  <1> USE AppServerAssumption DEF IInv, Kill, sources, handles, directory
  <1>0. /\ proc' \in [Proc -> {"none", "up", "dying", "zombie", "gone"}]
        /\ member' = member /\ piped' = piped /\ reused' = reused
        /\ \A p \in member : proc'[p] # "none" /\ proc'[p] # "up"
        /\ \A p \in Proc : proc'[p] = proc[p] \/ (proc[p] = "up" /\ proc'[p] = "dying")
    BY KillGroupStops
  <1>1. TypeOK'
    BY <1>0 DEF TypeOK, FileKind, Cleaning, Returned
  <1>2. LaunchInOrder'
    BY DEF LaunchInOrder, Launching
  <1>3. GroupIsDown'
    BY <1>0 DEF GroupIsDown, Up
  <1>4. ReapedLate'
    BY <1>0 DEF TypeOK, ReapedLate, OwnGroupOnly, Late, Cleaning, Returned, Proc
  <1>5. RunsWhatWasVerified'
    BY <1>0 DEF RunsWhatWasVerified, Proc
  <1>6. EndsClean'
    BY DEF EndsClean, Cleaning
  <1> QED BY <1>1, <1>2, <1>3, <1>4, <1>5, <1>6

LEMMA DroppedKeeps == ASSUME IInv, Dropped PROVE IInv'
  <1> USE AppServerAssumption DEF IInv, Dropped, sources, handles, directory, kernel
  <1>0. /\ proc' \in [Proc -> {"none", "up", "dying", "zombie", "gone"}]
        /\ member' = member /\ piped' = piped /\ reused' = reused
        /\ \A p \in member : proc'[p] # "none" /\ proc'[p] # "up"
        /\ \A p \in Proc : proc'[p] = proc[p] \/ (proc[p] = "up" /\ proc'[p] = "dying")
    <2>1. CASE pc = "flow"
      BY <2>1, KillGroupStops
    <2>2. CASE pc # "flow"
      BY <2>2 DEF TypeOK, GroupIsDown, Up
    <2> QED BY <2>1, <2>2
  <1>1. TypeOK'
    BY <1>0 DEF TypeOK, FileKind, Cleaning, Returned
  <1>2. LaunchInOrder'
    BY DEF LaunchInOrder, Launching
  <1>3. GroupIsDown'
    BY <1>0 DEF GroupIsDown, Up
  <1>4. ReapedLate'
    BY <1>0 DEF TypeOK, ReapedLate, OwnGroupOnly, Late, Cleaning, Returned, Proc
  <1>5. RunsWhatWasVerified'
    BY <1>0 DEF RunsWhatWasVerified, Proc
  <1>6. EndsClean'
    BY DEF EndsClean, Cleaning
  <1> QED BY <1>1, <1>2, <1>3, <1>4, <1>5, <1>6

\* The other steps of the caller and of its reader.
LEMMA CallerKeeps ==
    ASSUME IInv, FlowEnds \/ Reap \/ WaitTimesOut \/ Drained \/ Join \/ Unlink \/ RemoveCwd
    PROVE  IInv'
  <1> USE AppServerAssumption DEF IInv, FlowEnds, Reap, WaitTimesOut, Drained, Join, Unlink, RemoveCwd,
          Goto, sources, handles, directory, kernel
  <1>1. TypeOK'
    BY DEF TypeOK, FirstError, FileKind, Cleaning, Returned, Proc
  <1>2. LaunchInOrder'
    BY DEF LaunchInOrder, Launching
  <1>3. GroupIsDown'
    BY DEF TypeOK, GroupIsDown, Up, Proc
  <1>4. ReapedLate'
    BY DEF TypeOK, ReapedLate, OwnGroupOnly, Late, Cleaning, Returned, Proc
  <1>5. RunsWhatWasVerified'
    BY DEF TypeOK, RunsWhatWasVerified, Proc
  <1>6. EndsClean'
    BY DEF EndsClean, Cleaning, FirstError
  <1> QED BY <1>1, <1>2, <1>3, <1>4, <1>5, <1>6

\* What the system around it does at any time.
LEMMA SystemKeeps ==
    ASSUME IInv, Replace \/ Reuse \/ Orphan \/ (\E p \in Proc : End(p) \/ Rewrite(p) \/ Leave(p))
    PROVE  IInv'
  <1> USE AppServerAssumption DEF IInv, Replace, Reuse, Orphan, End, Rewrite, Leave, Alive, Up,
          sources, handles, directory, kernel
  <1>1. TypeOK'
    BY DEF TypeOK, FileKind, Cleaning, Returned, Proc
  <1>2. LaunchInOrder'
    BY DEF TypeOK, LaunchInOrder, Launching, Proc
  <1>3. GroupIsDown'
    BY DEF TypeOK, GroupIsDown, Proc
  <1>4. ReapedLate'
    BY DEF TypeOK, ReapedLate, OwnGroupOnly, Late, Cleaning, Returned, Proc
  <1>5. RunsWhatWasVerified'
    BY DEF TypeOK, RunsWhatWasVerified, Proc
  <1>6. EndsClean'
    BY DEF EndsClean, Cleaning
  <1> QED BY <1>1, <1>2, <1>3, <1>4, <1>5, <1>6

LEMMA ForkKeeps ==
    ASSUME IInv, NEW p \in Proc, NEW q \in Descendant, Fork(p, q)
    PROVE  IInv'
  <1> USE AppServerAssumption DEF IInv, Fork, Up, sources, handles, directory, kernel
  <1>0. q \in Proc /\ q # Leader
    BY DEF Proc
  <1>1. TypeOK'
    BY <1>0 DEF TypeOK, FileKind, Cleaning, Returned
  <1>2. LaunchInOrder'
    BY <1>0 DEF TypeOK, LaunchInOrder, Launching
  <1>3. GroupIsDown'
    BY <1>0 DEF TypeOK, GroupIsDown
  <1>4. ReapedLate'
    BY <1>0 DEF TypeOK, ReapedLate, OwnGroupOnly, Proc
  <1>5. RunsWhatWasVerified'
    BY <1>0 DEF TypeOK, RunsWhatWasVerified, Proc
  <1>6. EndsClean'
    BY DEF EndsClean, Cleaning
  <1> QED BY <1>1, <1>2, <1>3, <1>4, <1>5, <1>6

LEMMA StutterKeeps == ASSUME IInv, UNCHANGED vars PROVE IInv'
  BY DEF IInv, TypeOK, LaunchInOrder, GroupIsDown, ReapedLate, OwnGroupOnly, RunsWhatWasVerified,
     EndsClean, Up, FirstError, vars, sources, handles, directory, kernel

LEMMA IInvAlways == Spec => []IInv
  <1>1. IInv /\ [Next]_vars => IInv'
    BY LaunchKeeps, SpawnKeeps, KillKeeps, DroppedKeeps, CallerKeeps, SystemKeeps, ForkKeeps,
       StutterKeeps DEF Next, Shutdown
  <1> QED BY InitIInv, <1>1, PTL DEF Spec

-------------------------------------------------------------------------------
\* The variables of a supervised app-server keep their types (process.rs, config.rs).
THEOREM SupervisionTypeCorrect == Spec => []TypeOK
  BY IInvAlways, PTL DEF IInv

\* After shutdown or Drop has killed the group (process.rs:241-292) no member of it runs, however
\* its processes fork, leave and end.
THEOREM NoMemberSurvivesAlways == Spec => []NoMemberSurvives
  <1>1. IInv => NoMemberSurvives
    BY DEF IInv, GroupIsDown, NoMemberSurvives, Returned
  <1> QED BY <1>1, IInvAlways, PTL

\* No signal (process.rs:51-55) reaches a group that took over the number of the leader's.
THEOREM OwnGroupOnlyAlways == Spec => []OwnGroupOnly
  BY IInvAlways, PTL DEF IInv, ReapedLate

\* The process runs the executable that was verified, with a private credential
\* (config.rs:241-352), whatever their paths become.
THEOREM RunsWhatWasVerifiedAlways == Spec => []RunsWhatWasVerified
  BY IInvAlways, PTL DEF IInv

\* Success, and the report that nothing was spawned, leave nothing behind (orchestrator.rs:245-281).
THEOREM NothingIsLeftAlways == Spec => []NothingIsLeft
  <1>1. IInv => NothingIsLeft
    BY DEF IInv, GroupIsDown, EndsClean, NothingIsLeft, Cleaning
  <1> QED BY <1>1, IInvAlways, PTL

-------------------------------------------------------------------------------
(* The transport. *)

\* What has been read whole.
WasRead == [i \in 1 .. pos |-> i]

\* What was read and matches no call was returned, is pending or is in hand, in this order.
ReadInOrder ==
    doing # "ended" =>
        Filter(got, Unmatching) \o pending \o Filter(InHand, Unmatching)
        = Filter(WasRead, Unmatching)

ReaderInv ==
    /\ ReaderTypeOK
    /\ doing = "next" => id <= Calls
    /\ doing = "match" => hand # 0
    /\ ToSet(pending) \subseteq Unmatching
    /\ ReadInOrder
    /\ PendingIsExact

\* The smallest size is a size.
LEMMA SmallestIsSize == Smallest \in Sizes
  <1>1. PICK n \in Sizes : \A m \in Sizes : n <= m
    <2>1. Sizes \subseteq Nat /\ Sizes # {}
      BY ReaderAssumption
    <2> QED BY <2>1, Least
  <1> QED BY <1>1 DEF Smallest

\* The size of the message at each position.
Weights == [i \in DOMAIN sent |-> sent[i].size]

\* The weight of a position is the size of its message.
LEMMA WeightsAreSizes ==
    ASSUME sent \in Seq(Message)
    PROVE  \A i \in 1 .. Len(sent) : Weights[i] = sent[i].size /\ Weights[i] \in Nat
  <1> TAKE i \in 1 .. Len(sent)
  <1>1. sent[i] \in Message /\ i \in DOMAIN sent
    OBVIOUS
  <1>2. sent[i].size \in Nat
    BY <1>1, ReaderAssumption DEF Message
  <1> QED BY <1>1, <1>2 DEF Weights

\* What is pending weighs the sum of its sizes.
LEMMA PendingWeighs ==
    ASSUME sent \in Seq(Message), NEW q \in Seq(1 .. Len(sent))
    PROVE  SumFunction([k \in DOMAIN q |-> sent[q[k]].size]) = Weight(Weights, q)
  <1>1. DOMAIN sent = 1 .. Len(sent)
    OBVIOUS
  <1>2. \A k \in DOMAIN q : q[k] \in 1 .. Len(sent)
    OBVIOUS
  <1>3. \A k \in DOMAIN q : Weights[q[k]] = sent[q[k]].size
    BY <1>1, <1>2 DEF Weights
  <1>4. [k \in DOMAIN q |-> sent[q[k]].size] = [k \in DOMAIN q |-> Weights[q[k]]]
    BY <1>3
  <1> QED BY <1>4, Zenon DEF Weight

\* The lists of the reader are lists of positions.
LEMMA ReaderLists ==
    ASSUME ReaderTypeOK, doing = "match" => hand # 0
    PROVE  /\ Len(sent) \in Nat /\ pos \in Nat /\ pos <= Len(sent)
           /\ got \in Seq(1 .. Len(sent)) /\ pending \in Seq(1 .. Len(sent))
           /\ InHand \in Seq(1 .. Len(sent)) /\ WasRead \in Seq(1 .. Len(sent))
  <1>1. Len(sent) \in Nat /\ pos \in Nat /\ pos <= Len(sent)
    BY DEF ReaderTypeOK
  <1>2. InHand \in Seq(1 .. Len(sent))
    <2>1. CASE doing = "match"
      <3>1. hand \in 1 .. Len(sent)
        BY <1>1, <2>1 DEF ReaderTypeOK
      <3> QED BY <2>1, <3>1 DEF InHand
    <2>2. CASE doing # "match"
      BY <2>2 DEF InHand
    <2> QED BY <2>1, <2>2
  <1>3. WasRead \in [1 .. pos -> 1 .. Len(sent)]
    BY <1>1 DEF WasRead
  <1>4. WasRead \in Seq(1 .. Len(sent))
    BY <1>1, <1>3
  <1> QED BY <1>1, <1>2, <1>4 DEF ReaderTypeOK

\* The invariant holds initially.
LEMMA ReaderInitInv == ReaderInit => ReaderInv
  <1> SUFFICES ASSUME ReaderInit PROVE ReaderInv
    OBVIOUS
  <1>1. ReaderTypeOK
    <2>1. Len(sent) = 0 /\ sent \in Seq(Message) /\ \A S : <<>> \in Seq(S)
      BY DEF ReaderInit
    <2>2. 0 \in 0 .. MaxUnasked /\ 0 \in 0 .. Calls + 1 /\ 0 \in 0 .. 0
      BY ReaderAssumption
    <2> QED BY <2>1, <2>2 DEF ReaderInit, ReaderTypeOK
  <1>2. (doing = "next" => id <= Calls) /\ (doing = "match" => hand # 0)
    BY ReaderAssumption DEF ReaderInit
  <1>3. ToSet(pending) \subseteq Unmatching
    BY DEF ReaderInit, ToSet
  <1>4. ReadInOrder
    <2>1. got = <<>> /\ pending = <<>> /\ InHand = <<>> /\ WasRead = <<>>
      BY DEF ReaderInit, InHand, WasRead
    <2>2. Filter(<<>>, Unmatching) = <<>>
      BY FilterEmpty
    <2>3. <<>> \o <<>> \o <<>> = <<>>
      OBVIOUS
    <2> QED BY <2>1, <2>2, <2>3, Zenon DEF ReadInOrder
  <1>5. PendingIsExact
    <2>1. pending = <<>> /\ pendingBytes = 0
      BY DEF ReaderInit
    <2>2. Weight(Weights, pending) = 0
      BY <2>1, WeightEmpty, Zenon
    <2>3. pendingBytes = SumFunction([k \in DOMAIN pending |-> sent[pending[k]].size])
      BY <1>1, <2>1, <2>2, PendingWeighs DEF ReaderTypeOK
    <2> QED BY <2>1, <2>3, ReaderAssumption DEF PendingIsExact
  <1> QED BY <1>1, <1>2, <1>3, <1>4, <1>5 DEF ReaderInv

\* What the app-server writes changes nothing of what was read.
LEMMA WriteKeeps ==
    ASSUME ReaderInv, NEW kind \in Kind, NEW n \in 0 .. Calls + 2, NEW size \in Sizes,
           Write(kind, n, size), UNCHANGED <<pos, pending, pendingBytes, doing, hand, got, id>>
    PROVE  /\ sent' \in Seq(Message) /\ Len(sent') = Len(sent) + 1
           /\ pending' \in Seq(1 .. Len(sent')) /\ got' \in Seq(1 .. Len(sent'))
           /\ ToSet(pending)' \subseteq Unmatching' /\ ReadInOrder' /\ PendingIsExact'
  <1> DEFINE N == Len(sent)
             S == 1 .. N
             K == Unmatching
             L == Unmatching'
             m == [kind |-> kind, id |-> n, size |-> size]
  <1>1. m \in Message /\ sent' = Append(sent, m) /\ sent \in Seq(Message) /\ N \in Nat
    BY DEF Write, Message, ReaderInv, ReaderTypeOK
  <1>2. sent' \in Seq(Message) /\ Len(sent') = N + 1 /\ \A i \in S : sent'[i] = sent[i]
    BY <1>1
  <1>3. DOMAIN sent = 1 .. N /\ DOMAIN sent' = 1 .. N + 1 /\ \A i \in S : i \in 1 .. N + 1
    BY <1>1, <1>2
  <1>4. (\A i \in S : i \in K <=> i \in L) /\ K \subseteq S
    BY <1>2, <1>3 DEF Unmatching
  <1>5. got \in Seq(S) /\ pending \in Seq(S) /\ InHand \in Seq(S) /\ WasRead \in Seq(S)
    BY ReaderLists DEF ReaderInv
  <1>6. got \in Seq(1 .. N + 1) /\ pending \in Seq(1 .. N + 1)
    BY <1>3, <1>5
  <1> HIDE DEF S, K, L, m
  <1>7. ToSet(pending) \subseteq L
    BY <1>4 DEF ReaderInv, K
  <1>8. UNCHANGED <<InHand, WasRead>>
    BY DEF InHand, WasRead
  <1>9. ReadInOrder'
    <2> SUFFICES ASSUME doing # "ended"
                 PROVE  Filter(got, L) \o pending \o Filter(InHand, L) = Filter(WasRead, L)
      BY <1>8, Zenon DEF ReadInOrder, L
    <2>1. Filter(got, K) = Filter(got, L)
      BY <1>4, <1>5, FilterSame
    <2>2. Filter(InHand, K) = Filter(InHand, L)
      BY <1>4, <1>5, FilterSame
    <2>3. Filter(WasRead, K) = Filter(WasRead, L)
      BY <1>4, <1>5, FilterSame
    <2>4. Filter(got, K) \o pending \o Filter(InHand, K) = Filter(WasRead, K)
      BY DEF ReaderInv, ReadInOrder, K
    <2> QED BY <2>1, <2>2, <2>3, <2>4, Zenon
  <1>10. PendingIsExact'
    <2>1. \A k \in DOMAIN pending : sent'[pending[k]].size = sent[pending[k]].size
      <3>1. \A k \in DOMAIN pending : pending[k] \in S
        BY <1>5
      <3> QED BY <1>2, <3>1
    <2>2. [k \in DOMAIN pending |-> sent'[pending[k]].size]
              = [k \in DOMAIN pending |-> sent[pending[k]].size]
      BY <2>1
    <2> QED BY <2>2, Zenon DEF ReaderInv, PendingIsExact
  <1> QED BY <1>2, <1>6, <1>7, <1>9, <1>10 DEF L

\* The steps of the app-server keep the invariant.
LEMMA AppServerKeeps == ASSUME ReaderInv, AppServerStep PROVE ReaderInv'
  <1>1. Smallest \in Sizes
    BY SmallestIsSize
  <1>2. ReaderTypeOK /\ Calls \in Nat
    BY ReaderAssumption DEF ReaderInv
  <1>3. ASSUME NEW kind \in Kind, NEW n \in 0 .. Calls + 2, NEW size \in Sizes,
               Write(kind, n, size), UNCHANGED <<heard, reader, owner>>,
               unasked' \in 0 .. MaxUnasked, answered' \subseteq 1 .. Calls + 1
        PROVE  ReaderInv'
    <2>1. UNCHANGED <<pos, half, pending, pendingBytes, served, stdin, doing, id, hand, got>>
      BY <1>3 DEF reader, owner
    <2>2. /\ sent' \in Seq(Message) /\ Len(sent') = Len(sent) + 1
          /\ pending' \in Seq(1 .. Len(sent')) /\ got' \in Seq(1 .. Len(sent'))
          /\ ToSet(pending)' \subseteq Unmatching' /\ ReadInOrder' /\ PendingIsExact'
      BY <1>3, <2>1, WriteKeeps
    <2>3. pos \in 0 .. Len(sent') /\ hand \in 0 .. Len(sent')
      BY <1>2, <2>2 DEF ReaderTypeOK
    <2>4. ReaderTypeOK'
      BY <1>2, <1>3, <2>1, <2>2, <2>3 DEF ReaderTypeOK
    <2> QED BY <2>1, <2>2, <2>4 DEF ReaderInv
  <1>4. CASE AppServerAnswers
    <2>1. PICK n \in heard \ answered :
               Write("response", n, Smallest) /\ answered' = answered \cup {n}
      BY <1>4 DEF AppServerAnswers
    <2>2. n \in 1 .. Calls + 1
      BY <1>2 DEF ReaderTypeOK
    <2>3. n \in 0 .. Calls + 2
      BY <1>2, <2>2
    <2> QED BY <1>1, <1>2, <1>3, <1>4, <2>1, <2>2, <2>3 DEF AppServerAnswers, ReaderTypeOK, Kind
  <1>5. CASE AppServerCompletes
    <2>1. 0 \in 0 .. Calls + 2
      BY <1>2
    <2> QED BY <1>1, <1>2, <1>3, <1>5, <2>1 DEF AppServerCompletes, ReaderTypeOK, Kind
  <1>6. ASSUME NEW kind \in Kind, NEW n \in 0 .. Calls + 2, NEW size \in Sizes,
               AppServerWrites(kind, n, size)
        PROVE  ReaderInv'
    <2>1. unasked + 1 \in 0 .. MaxUnasked
      BY <1>2, <1>6, ReaderAssumption DEF AppServerWrites, ReaderTypeOK
    <2> QED BY <1>2, <1>3, <1>6, <2>1 DEF AppServerWrites, ReaderTypeOK
  <1>7. CASE \E kind \in {"note", "odd"}, size \in Sizes : AppServerWrites(kind, 0, size)
    <2>1. 0 \in 0 .. Calls + 2
      BY <1>2
    <2> QED BY <1>6, <1>7, <2>1 DEF Kind
  <1>8. CASE \E kind \in {"request", "bad"} : AppServerWrites(kind, 0, Smallest)
    <2>1. 0 \in 0 .. Calls + 2
      BY <1>2
    <2> QED BY <1>1, <1>6, <1>8, <2>1 DEF Kind
  <1>9. CASE \E n \in 1 .. Calls + 2 : AppServerWrites("response", n, Smallest)
    <2>1. \A n \in 1 .. Calls + 2 : n \in 0 .. Calls + 2
      OBVIOUS
    <2> QED BY <1>1, <1>6, <1>9, <2>1 DEF Kind
  <1> QED BY <1>4, <1>5, <1>7, <1>8, <1>9 DEF AppServerStep

\* A step that reads and returns nothing, and drops nothing that matches no call.
LEMMA HandKeeps ==
    ASSUME ReaderInv, UNCHANGED <<sent, pos, pending, pendingBytes, got>>, doing' # "match",
           doing' # "ended" => doing # "ended" /\ (doing = "match" => hand \notin Unmatching)
    PROVE  ToSet(pending)' \subseteq Unmatching' /\ ReadInOrder' /\ PendingIsExact'
  <1>1. UNCHANGED <<Unmatching, WasRead>>
    BY DEF Unmatching, WasRead
  <1>2. ToSet(pending)' \subseteq Unmatching' /\ PendingIsExact'
    BY <1>1 DEF ReaderInv, PendingIsExact, ToSet
  <1>3. Filter(<<>>, Unmatching) = <<>>
    BY FilterEmpty
  <1>4. ASSUME doing' # "ended" PROVE Filter(InHand, Unmatching) = <<>> /\ InHand' = <<>>
    <2>1. InHand' = <<>>
      BY DEF InHand
    <2>2. CASE doing = "match"
      <3>1. InHand = <<hand>> /\ hand \notin Unmatching
        BY <1>4, <2>2 DEF InHand
      <3>2. Filter(<<hand>>, Unmatching) = <<>>
        BY <3>1, FilterOne
      <3> QED BY <2>1, <3>1, <3>2, Zenon
    <2>3. CASE doing # "match"
      <3>1. InHand = <<>>
        BY <2>3 DEF InHand
      <3> QED BY <1>3, <2>1, <3>1, Zenon
    <2> QED BY <2>2, <2>3
  <1>5. ReadInOrder'
    BY <1>1, <1>3, <1>4, Zenon DEF ReaderInv, ReadInOrder
  <1> QED BY <1>2, <1>5

\* No call wants a message that is pending.
LEMMA NothingIsWanted == ASSUME ReaderInv PROVE Wanted = 0
  <1>1. pending \in Seq(1 .. Len(sent))
    BY DEF ReaderInv, ReaderTypeOK
  <1>2. ASSUME NEW k \in DOMAIN pending
        PROVE  ~IsResponse(pending[k]) /\ ~IsServerRequest(pending[k])
    <2>1. pending[k] \in Unmatching
      BY DEF ReaderInv, ToSet
    <2> QED BY <2>1 DEF Unmatching, Unmatched, IsResponse, IsServerRequest
  <1>3. \A k \in 1 .. Len(pending) : ~IsServerRequest(pending[k])
    BY <1>1, <1>2
  <1>4. SelectInSeq(pending, IsServerRequest) = 0
    BY <1>3 DEF SelectInSeq
  <1> QED BY <1>2, <1>4 DEF Wanted

\* A request keeps the invariant.
LEMMA StartCallKeeps == ASSUME ReaderInv, StartCall PROVE ReaderInv'
  <1>1. /\ doing = "next" /\ doing' = "call" /\ id' = id + 1
        /\ UNCHANGED <<sent, unasked, answered, served, pos, half, pending, pendingBytes,
                       hand, got>>
        /\ stdin' \in {"whole", "joined"} /\ heard' \subseteq heard \cup {id + 1}
    BY DEF StartCall, reader
  <1>2. id + 1 \in 1 .. Calls + 1 /\ id + 1 \in 0 .. Calls + 1
    BY <1>1, ReaderAssumption DEF ReaderInv, ReaderTypeOK
  <1>3. ReaderTypeOK'
    BY <1>1, <1>2 DEF ReaderInv, ReaderTypeOK
  <1>4. ToSet(pending)' \subseteq Unmatching' /\ ReadInOrder' /\ PendingIsExact'
    BY <1>1, HandKeeps
  <1> QED BY <1>1, <1>3, <1>4 DEF ReaderInv

\* The part of a message that is read is in no list.
LEMMA ReadPartKeeps == ASSUME ReaderInv, ReadPart PROVE ReaderInv'
  <1>1. /\ half' = TRUE
        /\ UNCHANGED <<sent, unasked, answered, heard, served, pos, pending, pendingBytes,
                       stdin, doing, id, hand, got>>
    BY DEF ReadPart, server, owner
  <1>2. ReaderTypeOK'
    BY <1>1 DEF ReaderInv, ReaderTypeOK
  <1>3. UNCHANGED <<Unmatching, WasRead, InHand>>
    BY <1>1 DEF Unmatching, WasRead, InHand
  <1>4. ToSet(pending)' \subseteq Unmatching' /\ ReadInOrder' /\ PendingIsExact'
    BY <1>1, <1>3 DEF ReaderInv, ReadInOrder, PendingIsExact, ToSet
  <1> QED BY <1>1, <1>2, <1>4 DEF ReaderInv

\* The steps that end a call, a response, the wait or the session.
LEMMA EndKeeps ==
    ASSUME ReaderInv,
           CallReturns \/ CallDispatches \/ CallDesyncs \/ WaitResponds \/ Interrupt \/ GiveUp
    PROVE  ReaderInv'
  <1>1. /\ UNCHANGED <<sent, unasked, answered, heard, pos, half, pending, pendingBytes, id, got>>
        /\ hand' = 0 /\ served' \in {served, served + 1} /\ stdin' \in {"whole", "cut", stdin}
        /\ doing' \in {"next", "call", "wait", "ended"}
    BY DEF CallReturns, CallDispatches, CallDesyncs, WaitResponds, Interrupt, GiveUp, AfterCall,
           server, reader
  <1>2. doing' = "next" => id' <= Calls
    BY ReaderAssumption
       DEF CallReturns, CallDispatches, CallDesyncs, WaitResponds, Interrupt, GiveUp,
           AfterCall, ReaderInv, ReaderTypeOK
  <1>3. doing' # "ended" => doing # "ended" /\ (doing = "match" => hand \notin Unmatching)
    BY DEF CallReturns, CallDispatches, CallDesyncs, WaitResponds, Interrupt, GiveUp, IsResponse,
           Unmatching, Unmatched
  <1>4. ReaderTypeOK'
    <2>1. served' \in Nat /\ 0 \in 0 .. Len(sent)
      BY <1>1 DEF ReaderInv, ReaderTypeOK
    <2> QED BY <1>1, <2>1 DEF ReaderInv, ReaderTypeOK
  <1>5. ToSet(pending)' \subseteq Unmatching' /\ ReadInOrder' /\ PendingIsExact'
    BY <1>1, <1>3, HandKeeps
  <1> QED BY <1>1, <1>2, <1>4, <1>5 DEF ReaderInv

\* One message more was read.
LEMMA ReadOneMore ==
    ASSUME ReaderInv, ReadFrame, UNCHANGED sent
    PROVE  /\ pos + 1 \in 1 .. Len(sent)
           /\ Filter(WasRead', Unmatching)
              = IF pos + 1 \in Unmatching THEN Append(Filter(WasRead, Unmatching), pos + 1)
                ELSE Filter(WasRead, Unmatching)
  <1>1. pos \in Nat /\ Len(sent) \in Nat /\ pos + 1 \in 1 .. Len(sent) /\ pos' = pos + 1
        /\ WasRead \in Seq(1 .. Len(sent))
    BY ReaderLists DEF ReaderInv, ReaderTypeOK, ReadFrame
  <1>2. WasRead' = Append(WasRead, pos + 1)
    <2>1. WasRead' = [i \in 1 .. pos + 1 |-> i]
      BY <1>1 DEF WasRead
    <2>2. Len(WasRead) = pos /\ \A i \in 1 .. pos : WasRead[i] = i
      BY <1>1 DEF WasRead
    <2> DEFINE n == pos + 1
               more == Append(WasRead, n)
    <2>3. /\ Len(more) = n /\ DOMAIN more = 1 .. n /\ more = [i \in DOMAIN more |-> more[i]]
          /\ more[n] = n /\ \A i \in 1 .. pos : more[i] = i
      BY <1>1, <2>2
    <2>4. \A i \in 1 .. n : i \in 1 .. pos \/ i = n
      BY <1>1
    <2>5. \A i \in 1 .. n : more[i] = i
      BY <2>3, <2>4
    <2> HIDE DEF more
    <2>6. more = [i \in 1 .. n |-> i]
      BY <2>3, <2>5
    <2> QED BY <2>1, <2>6 DEF more
  <1>3. Filter(Append(WasRead, pos + 1), Unmatching)
        = IF pos + 1 \in Unmatching THEN Append(Filter(WasRead, Unmatching), pos + 1)
          ELSE Filter(WasRead, Unmatching)
    <2> DEFINE P == 1 .. Len(sent)
               n == pos + 1
               K == Unmatching
    <2>1. WasRead \in Seq(P) /\ n \in P
      BY <1>1
    <2> HIDE DEF P, n, K
    <2>2. Filter(Append(WasRead, n), K)
          = IF n \in K THEN Append(Filter(WasRead, K), n) ELSE Filter(WasRead, K)
      BY <2>1, FilterAppend
    <2> QED BY <2>2 DEF n, K
  <1> QED BY <1>1, <1>2, <1>3, Zenon

\* What a call reads is in its hand.
LEMMA CallReadsKeeps == ASSUME ReaderInv, CallReads PROVE ReaderInv'
  <1>1. /\ doing = "call" /\ doing' = "match" /\ ReadFrame /\ hand' = pos + 1
        /\ UNCHANGED <<sent, unasked, answered, heard, served, pending, pendingBytes, stdin,
                       id, got>>
    BY NothingIsWanted DEF CallReads, server
  <1>2. pos + 1 \in 1 .. Len(sent) /\ pos \in Nat /\ pos' = pos + 1 /\ half' = FALSE
    BY <1>1, ReadOneMore DEF ReaderInv, ReaderTypeOK, ReadFrame
  <1>3. hand' # 0 /\ hand' \in 0 .. Len(sent) /\ pos' \in 0 .. Len(sent)
    BY <1>1, <1>2
  <1>4. ReaderTypeOK'
    BY <1>1, <1>2, <1>3 DEF ReaderInv, ReaderTypeOK
  <1>5. UNCHANGED Unmatching
    BY <1>1 DEF Unmatching
  <1>6. ToSet(pending)' \subseteq Unmatching' /\ PendingIsExact'
    BY <1>1, <1>5 DEF ReaderInv, PendingIsExact, ToSet
  <1>7. ReadInOrder'
    <2> DEFINE K == Unmatching
               all == Filter(got, K) \o pending
               n == pos + 1
    <2>1. InHand = <<>> /\ InHand' = <<n>>
      BY <1>1 DEF InHand
    <2>2. Filter(<<>>, K) = <<>> /\ Filter(<<n>>, K) = IF n \in K THEN <<n>> ELSE <<>>
      BY FilterEmpty, FilterOne
    <2>3. Filter(WasRead', K)
          = IF n \in K THEN Append(Filter(WasRead, K), n) ELSE Filter(WasRead, K)
      BY <1>1, ReadOneMore
    <2>4. all \o <<>> = Filter(WasRead, K)
      BY <1>1, <2>1, <2>2, Zenon DEF ReaderInv, ReadInOrder
    <2>5. all \in Seq(Nat)
      <3>1. got \in Seq(Nat) /\ pending \in Seq(Nat)
        <4>1. got \in Seq(1 .. Len(sent)) /\ pending \in Seq(1 .. Len(sent))
          BY DEF ReaderInv, ReaderTypeOK
        <4> QED BY <4>1
      <3>2. Filter(got, K) \in Seq(Nat \cap K)
        BY <3>1, FilterType
      <3>3. Filter(got, K) \in Seq(Nat)
        BY <3>2
      <3> HIDE DEF K
      <3> QED BY <3>1, <3>3
    <2> HIDE DEF all, n
    <2>6. all \o <<>> = all /\ all \o <<n>> = Append(all, n)
      BY <1>2, <2>5 DEF n
    <2>7. all \o Filter(<<n>>, K) = Filter(WasRead', K)
      BY <2>2, <2>3, <2>4, <2>6
    <2> QED BY <1>1, <1>5, <2>1, <2>7, Zenon DEF ReadInOrder, all
  <1> QED BY <1>1, <1>3, <1>4, <1>6, <1>7 DEF ReaderInv

\* What a call buffers goes from its hand to the pending messages, if they have room.
LEMMA CallBuffersKeeps == ASSUME ReaderInv, CallBuffers PROVE ReaderInv'
  <1>1. /\ doing = "match" /\ sent[hand].kind \in Unmatched /\ hand' = 0
        /\ UNCHANGED <<sent, unasked, answered, heard, served, pos, half, stdin, id, got>>
    BY DEF CallBuffers, server
  <1>2. hand \in Unmatching /\ hand \in 1 .. Len(sent)
    <2>1. hand \in 1 .. Len(sent) /\ DOMAIN sent = 1 .. Len(sent)
      BY <1>1 DEF ReaderInv, ReaderTypeOK
    <2> QED BY <1>1, <2>1 DEF Unmatching
  <1>3. UNCHANGED <<Unmatching, WasRead>>
    BY <1>1 DEF Unmatching, WasRead
  <1>4. 0 \in 0 .. Len(sent) /\ pending \in Seq(1 .. Len(sent)) /\ sent \in Seq(Message)
    BY <1>2 DEF ReaderInv, ReaderTypeOK
  <1>5. CASE doing' = "ended" /\ UNCHANGED <<pending, pendingBytes>>
    <2>1. ReaderTypeOK'
      BY <1>1, <1>4, <1>5 DEF ReaderInv, ReaderTypeOK
    <2>2. ToSet(pending)' \subseteq Unmatching' /\ PendingIsExact' /\ ReadInOrder'
      BY <1>1, <1>3, <1>5 DEF ReaderInv, PendingIsExact, ToSet, ReadInOrder
    <2> QED BY <1>5, <2>1, <2>2 DEF ReaderInv
  <1>6. CASE /\ Len(pending) < MaxPending /\ pendingBytes + sent[hand].size <= MaxBytes
             /\ pending' = Append(pending, hand) /\ pendingBytes' = pendingBytes + sent[hand].size
             /\ doing' = "call"
    <2> DEFINE P == 1 .. Len(sent)
               w == Weights
    <2>1. \A i \in P : w[i] = sent[i].size /\ w[i] \in Nat
      BY <1>4, WeightsAreSizes
    <2>2. pending' \in Seq(P) /\ Len(pending') = Len(pending) + 1 /\ Len(pending) \in Nat
      BY <1>2, <1>4, <1>6
    <2>3. pendingBytes \in Nat /\ pendingBytes' \in Nat
      <3>1. sent[hand].size \in Nat
        BY <1>2, <2>1
      <3>2. pendingBytes \in Nat
        BY DEF ReaderInv, ReaderTypeOK
      <3> QED BY <1>6, <3>1, <3>2
    <2>4. ReaderTypeOK'
      BY <1>1, <1>4, <1>6, <2>2, <2>3 DEF ReaderInv, ReaderTypeOK
    <2>5. ToSet(pending)' \subseteq Unmatching'
      <3>1. ToSet(Append(pending, hand)) = ToSet(pending) \cup {hand}
        BY <1>4, ToSetAppend
      <3>2. ToSet(pending) \subseteq Unmatching
        BY DEF ReaderInv
      <3>3. ToSet(pending)' = ToSet(pending) \cup {hand}
        BY <1>6, <3>1, Zenon DEF ToSet
      <3> QED BY <1>2, <1>3, <3>2, <3>3
    <2>6. PendingIsExact'
      <3>1. /\ SumFunction([k \in DOMAIN pending |-> sent[pending[k]].size]) = Weight(w, pending)
            /\ SumFunction([k \in DOMAIN pending' |-> sent[pending'[k]].size]) = Weight(w, pending')
        BY <1>4, <2>2, PendingWeighs
      <3>2. pendingBytes = Weight(w, pending)
        BY <3>1, Zenon DEF ReaderInv, PendingIsExact
      <3> HIDE DEF w, P
      <3>3. Weight(w, Append(pending, hand)) = Weight(w, pending) + w[hand]
        BY <1>2, <1>4, <2>1, WeightAppend DEF P
      <3>4. w[hand] = sent[hand].size
        BY <1>2, <2>1 DEF P
      <3>5. pendingBytes' = SumFunction([k \in DOMAIN pending' |-> sent[pending'[k]].size])
        BY <1>6, <3>1, <3>2, <3>3, <3>4, Zenon
      <3>6. Len(pending') <= MaxPending /\ pendingBytes' <= MaxBytes
        BY <1>6, <2>2, ReaderAssumption
      <3> QED BY <1>1, <3>5, <3>6, Zenon DEF PendingIsExact
    <2>7. ReadInOrder'
      <3> DEFINE K == Unmatching
                 a == Filter(got, K)
      <3>1. InHand = <<hand>> /\ InHand' = <<>>
        BY <1>1, <1>6 DEF InHand
      <3>2. Filter(<<>>, K) = <<>> /\ Filter(<<hand>>, K) = <<hand>>
        BY <1>2, FilterEmpty, FilterOne
      <3>3. a \o pending \o <<hand>> = Filter(WasRead, K)
        BY <1>1, <3>1, <3>2, Zenon DEF ReaderInv, ReadInOrder
      <3>4. a \in Seq(Nat) /\ pending \in Seq(Nat) /\ hand \in Nat
        <4>1. got \in Seq(Nat) /\ pending \in Seq(Nat) /\ hand \in Nat
          <5>1. got \in Seq(1 .. Len(sent))
            BY DEF ReaderInv, ReaderTypeOK
          <5> QED BY <1>2, <1>4, <5>1
        <4>2. a \in Seq(Nat \cap K)
          BY <4>1, FilterType
        <4> HIDE DEF a
        <4> QED BY <4>1, <4>2
      <3> HIDE DEF a
      <3>5. a \o Append(pending, hand) \o <<>> = a \o pending \o <<hand>>
        BY <3>4
      <3>6. a \o pending' \o Filter(InHand', K) = Filter(WasRead, K)
        BY <1>6, <3>1, <3>2, <3>3, <3>5, Zenon
      <3> QED BY <1>1, <1>3, <3>6, Zenon DEF ReadInOrder, a
    <2> QED BY <1>6, <2>4, <2>5, <2>6, <2>7 DEF ReaderInv
  <1> QED BY <1>5, <1>6 DEF CallBuffers

\* The wait takes the oldest pending message.
LEMMA WaitTakesPending ==
    ASSUME ReaderInv, doing = "wait", pending # <<>>, Hands(Head(pending)), RemovePending(1),
           UNCHANGED <<server, served, stdin, id, pos, half>>
    PROVE  ReaderInv'
  <1> DEFINE P == 1 .. Len(sent)
             first == Head(pending)
             w == Weights
  <1>1. /\ UNCHANGED <<sent, unasked, answered, heard>>
        /\ doing' \in {"respond", "wait", "ended"} /\ hand' \in {0, first}
        /\ got' = Append(got, first)
    BY DEF server, Hands, AfterMessage
  <1>2. pending \in Seq(P) /\ got \in Seq(P) /\ sent \in Seq(Message) /\ pendingBytes \in Nat
    BY DEF ReaderInv, ReaderTypeOK
  <1>3. first \in P /\ first = pending[1] /\ Tail(pending) \in Seq(P)
        /\ Len(Tail(pending)) <= Len(pending) /\ Len(pending) \in Nat /\ Len(Tail(pending)) \in Nat
    BY <1>2
  <1>4. pending' = Tail(pending) /\ pendingBytes' = pendingBytes - sent[first].size
    <2>1. SubSeq(pending, 1, 1 - 1) \o SubSeq(pending, 1 + 1, Len(pending)) = Tail(pending)
      BY <1>2
    <2> QED BY <1>3, <2>1 DEF RemovePending, RemoveAt
  <1>5. UNCHANGED <<Unmatching, WasRead>>
    BY <1>1 DEF Unmatching, WasRead
  <1>6. first \in Unmatching
    BY <1>2, <1>3 DEF ReaderInv, ToSet
  <1>7. \A i \in P : w[i] = sent[i].size /\ w[i] \in Nat
    BY <1>2, WeightsAreSizes
  <1>8. pendingBytes = Weight(w, pending)
        /\ SumFunction([k \in DOMAIN Tail(pending) |-> sent[Tail(pending)[k]].size])
           = Weight(w, Tail(pending))
    <2>1. SumFunction([k \in DOMAIN pending |-> sent[pending[k]].size]) = Weight(w, pending)
      BY <1>2, PendingWeighs
    <2>2. SumFunction([k \in DOMAIN Tail(pending) |-> sent[Tail(pending)[k]].size])
          = Weight(w, Tail(pending))
      BY <1>2, <1>3, PendingWeighs
    <2> QED BY <2>1, <2>2, Zenon DEF ReaderInv, PendingIsExact
  <1>9. Weight(w, pending) = w[first] + Weight(w, Tail(pending)) /\ Weight(w, Tail(pending)) \in Nat
    <2> HIDE DEF w, P
    <2> QED BY <1>2, <1>7, WeightTail
  <1>10. /\ pendingBytes' = Weight(w, Tail(pending)) /\ pendingBytes' \in Nat
         /\ pendingBytes' <= pendingBytes
    <2>1. sent[first].size = w[first] /\ w[first] \in Nat
      BY <1>3, <1>7
    <2> HIDE DEF w, first
    <2> QED BY <1>4, <1>8, <1>9, <2>1
  <1>11. PendingIsExact'
    <2>1. pendingBytes' = SumFunction([k \in DOMAIN pending' |-> sent'[pending'[k]].size])
      BY <1>1, <1>4, <1>8, <1>10, Zenon
    <2>2. Len(pending) <= MaxPending /\ pendingBytes <= MaxBytes
      BY DEF ReaderInv, PendingIsExact
    <2>3. Len(pending') <= MaxPending /\ pendingBytes' <= MaxBytes
      BY <1>2, <1>3, <1>4, <1>10, <2>2, ReaderAssumption
    <2> QED BY <2>1, <2>3, Zenon DEF PendingIsExact
  <1>12. ReaderTypeOK'
    <2>1. got' \in Seq(P) /\ hand' \in 0 .. Len(sent)
      BY <1>1, <1>2, <1>3
    <2> QED BY <1>1, <1>3, <1>4, <1>10, <2>1 DEF ReaderInv, ReaderTypeOK
  <1>13. ToSet(pending)' \subseteq Unmatching'
    <2>1. \A k \in DOMAIN Tail(pending) :
            k + 1 \in DOMAIN pending /\ Tail(pending)[k] = pending[k + 1]
      BY <1>2
    <2>2. ToSet(Tail(pending)) \subseteq ToSet(pending)
      BY <2>1 DEF ToSet
    <2> QED BY <1>4, <1>5, <2>2 DEF ReaderInv, ToSet
  <1>14. ReadInOrder'
    <2> DEFINE K == Unmatching
               a == Filter(got, K)
    <2>1. InHand = <<>> /\ InHand' = <<>>
      BY <1>1 DEF InHand
    <2>2. a \o pending \o Filter(<<>>, K) = Filter(WasRead, K)
      BY <2>1, Zenon DEF ReaderInv, ReadInOrder
    <2>3. Filter(got', K) = Append(a, first)
      <3> HIDE DEF P
      <3>1. Filter(Append(got, first), K) = Append(a, first)
        BY <1>2, <1>3, <1>6, FilterAppend
      <3> QED BY <1>1, <3>1, Zenon
    <2>4. a \in Seq(Nat) /\ pending \in Seq(Nat)
      <3>1. a \in Seq(P \cap K)
        BY <1>2, FilterType
      <3> HIDE DEF a, K
      <3> QED BY <1>2, <3>1
    <2> HIDE DEF a
    <2>5. Append(a, first) \o Tail(pending) = a \o pending
      BY <2>4
    <2> HIDE DEF first
    <2>6. Filter(got', K) \o pending' \o Filter(InHand', K) = Filter(WasRead, K)
      BY <1>4, <2>1, <2>2, <2>3, <2>5, Zenon
    <2> QED BY <1>5, <2>6, Zenon DEF ReadInOrder
  <1> QED BY <1>1, <1>11, <1>12, <1>13, <1>14 DEF ReaderInv

\* The wait reads the next message of stdout.
LEMMA WaitTakesNext ==
    ASSUME ReaderInv, doing = "wait", pending = <<>>, ReadFrame, Hands(pos + 1),
           UNCHANGED <<server, served, stdin, id, pending, pendingBytes>>
    PROVE  ReaderInv'
  <1> DEFINE n == pos + 1
             P == 1 .. Len(sent)
             K == Unmatching
             a == Filter(got, K)
  <1>1. /\ UNCHANGED <<sent, unasked, answered, heard>>
        /\ doing' \in {"respond", "wait", "ended"} /\ hand' \in {0, n} /\ got' = Append(got, n)
    BY DEF server, Hands, AfterMessage
  <1>2. n \in P /\ pos' = n /\ half' = FALSE /\ got \in Seq(P)
    BY <1>1, ReadOneMore DEF ReadFrame, ReaderInv, ReaderTypeOK
  <1>3. ReaderTypeOK'
    <2>1. got' \in Seq(P) /\ hand' \in 0 .. Len(sent) /\ pos' \in 0 .. Len(sent)
      BY <1>1, <1>2
    <2> QED BY <1>1, <1>2, <2>1 DEF ReaderInv, ReaderTypeOK
  <1>4. UNCHANGED Unmatching
    BY <1>1 DEF Unmatching
  <1>5. ToSet(pending)' \subseteq Unmatching' /\ PendingIsExact'
    BY <1>1, <1>4 DEF ReaderInv, PendingIsExact, ToSet
  <1>6. ReadInOrder'
    <2>1. InHand = <<>> /\ InHand' = <<>>
      BY <1>1 DEF InHand
    <2>2. Filter(<<>>, K) = <<>>
      BY FilterEmpty
    <2>3. a \o <<>> \o <<>> = Filter(WasRead, K)
      BY <2>1, <2>2, Zenon DEF ReaderInv, ReadInOrder
    <2>4. Filter(Append(got, n), K) = IF n \in K THEN Append(a, n) ELSE a
      <3> HIDE DEF P, K, n
      <3> QED BY <1>2, FilterAppend
    <2>5. Filter(WasRead', K)
          = IF n \in K THEN Append(Filter(WasRead, K), n) ELSE Filter(WasRead, K)
      BY <1>1, ReadOneMore
    <2>6. \A q \in Seq(Nat) : q \o <<>> = q
      OBVIOUS
    <2>7. a \in Seq(Nat) /\ Filter(Append(got, n), K) \in Seq(Nat)
      <3>1. a \in Seq(P \cap K)
        BY <1>2, FilterType
      <3>2. a \in Seq(Nat) /\ n \in Nat
        <4> HIDE DEF a, K
        <4> QED BY <1>2, <3>1
      <3> HIDE DEF a, n
      <3>3. Append(a, n) \in Seq(Nat)
        BY <3>2
      <3> QED BY <2>4, <3>2, <3>3
    <2> HIDE DEF a, n, K
    <2>8. a = Filter(WasRead, K)
      BY <2>3, <2>6, <2>7
    <2>9. Filter(Append(got, n), K) = Filter(WasRead', K)
      BY <2>4, <2>5, <2>8
    <2>10. Filter(Append(got, n), K) \o <<>> \o <<>> = Filter(WasRead', K)
      BY <2>6, <2>7, <2>9
    <2>11. Filter(got', K) \o pending' \o Filter(InHand', K) = Filter(WasRead', K)
      BY <1>1, <2>1, <2>2, <2>10, Zenon DEF n
    <2> QED BY <1>4, <2>11, Zenon DEF ReadInOrder, K
  <1> QED BY <1>1, <1>3, <1>5, <1>6 DEF ReaderInv

\* A step of nothing keeps the invariant.
LEMMA ReaderStutterKeeps == ASSUME ReaderInv, UNCHANGED readerVars PROVE ReaderInv'
  BY DEF ReaderInv, readerVars, server, reader, owner, ReaderTypeOK, ReadInOrder, PendingIsExact,
         Unmatching, WasRead, InHand, ToSet

\* The invariant always holds.
LEMMA ReaderInvAlways == ReaderSpec => []ReaderInv
  <1>1. ReaderInit => ReaderInv
    BY ReaderInitInv
  <1>2. ReaderInv /\ [ReaderNext]_readerVars => ReaderInv'
    <2> SUFFICES ASSUME ReaderInv, [ReaderNext]_readerVars PROVE ReaderInv'
      OBVIOUS
    <2>1. CASE WaitReads
      BY <2>1, WaitTakesPending, WaitTakesNext DEF WaitReads
    <2>2. CASE CallStep
      BY <2>2, StartCallKeeps, CallReadsKeeps, EndKeeps, CallBuffersKeeps DEF CallStep
    <2>3. CASE ReadPart \/ WaitResponds \/ Interrupt \/ GiveUp
      BY <2>3, ReadPartKeeps, EndKeeps
    <2>4. CASE AppServerStep
      BY <2>4, AppServerKeeps
    <2>5. CASE UNCHANGED readerVars
      BY <2>5, ReaderStutterKeeps
    <2> QED BY <2>1, <2>2, <2>3, <2>4, <2>5 DEF ReaderNext, ClientStep
  <1> QED BY <1>1, <1>2, PTL DEF ReaderSpec

\* The types of the transport's state.
THEOREM ReaderTypeCorrect == ReaderSpec => []ReaderTypeOK
  <1>1. ReaderInv => ReaderTypeOK
    BY DEF ReaderInv
  <1> QED BY <1>1, ReaderInvAlways, PTL

\* What is kept of two lists of positions.
LEMMA FilteredApart ==
    ASSUME NEW b \in Seq(1 .. Len(sent)), NEW c \in Seq(1 .. Len(sent))
    PROVE  Filter(b \o c, Unmatching) = Filter(b, Unmatching) \o Filter(c, Unmatching)
  <1> DEFINE K == Unmatching
             P == 1 .. Len(sent)
  <1>1. b \in Seq(P) /\ c \in Seq(P)
    OBVIOUS
  <1> HIDE DEF K, P
  <1>2. Filter(b \o c, K) = Filter(b, K) \o Filter(c, K)
    BY <1>1, FilterConcat
  <1> QED BY <1>2 DEF K

\* jsonl.rs:11-14: for any number of calls, any limits and anything the app-server writes, every
\* notification is returned once and in order.
THEOREM NotificationsInOrderAlways == ReaderSpec => []NotificationsInOrder
  <1>1. ReaderInv => NotificationsInOrder
    <2> SUFFICES ASSUME ReaderInv, doing # "ended"
                 PROVE  Filter(got, Unmatching) \o pending \o Filter(InHand \o Unread, Unmatching)
                        = Filter([i \in DOMAIN sent |-> i], Unmatching)
      BY DEF NotificationsInOrder
    <2> DEFINE P == 1 .. Len(sent)
               K == Unmatching
               all == [i \in DOMAIN sent |-> i]
               a == Filter(got, K) \o pending
    <2>1. /\ Len(sent) \in Nat /\ pos \in Nat /\ pos <= Len(sent) /\ DOMAIN sent = P
          /\ got \in Seq(P) /\ pending \in Seq(P) /\ InHand \in Seq(P) /\ WasRead \in Seq(P)
      BY ReaderLists DEF ReaderInv, ReaderTypeOK
    <2>2. Unread \in Seq(P)
      <3>1. Len(sent) - pos \in Nat
        BY <2>1
      <3>2. \A i \in 1 .. Len(sent) - pos : pos + i \in P
        BY <2>1
      <3>3. Unread \in [1 .. Len(sent) - pos -> P]
        BY <3>2 DEF Unread
      <3> QED BY <3>1, <3>3
    <2>3. all = WasRead \o Unread
      <3>1. Len(WasRead) = pos /\ Len(Unread) = Len(sent) - pos
        BY <2>1 DEF WasRead, Unread
      <3> DEFINE both == WasRead \o Unread
      <3>2. /\ both \in Seq(P) /\ Len(both) = Len(WasRead) + Len(Unread)
            /\ \A i \in 1 .. Len(WasRead) + Len(Unread) :
                  both[i] = IF i <= Len(WasRead) THEN WasRead[i] ELSE Unread[i - Len(WasRead)]
        <4> HIDE DEF P
        <4> QED BY <2>1, <2>2, ConcatProperties
      <3> HIDE DEF both
      <3>3. ASSUME NEW i \in P PROVE both[i] = i
        <4>1. i \in 1 .. Len(WasRead) + Len(Unread)
          BY <2>1, <3>1
        <4>2. CASE i <= pos
          <5>1. i \in 1 .. pos /\ i <= Len(WasRead)
            BY <2>1, <3>1, <4>2
          <5>2. both[i] = WasRead[i]
            BY <3>2, <4>1, <5>1
          <5> QED BY <5>1, <5>2 DEF WasRead
        <4>3. CASE ~(i <= pos)
          <5>1. i - pos \in 1 .. Len(sent) - pos /\ pos + (i - pos) = i /\ ~(i <= Len(WasRead))
            BY <2>1, <3>1, <4>3
          <5>2. both[i] = Unread[i - Len(WasRead)]
            BY <3>2, <4>1, <5>1
          <5> QED BY <3>1, <5>1, <5>2 DEF Unread
        <4> QED BY <4>2, <4>3
      <3>4. DOMAIN both = P
        BY <2>1, <3>1, <3>2
      <3>5. both = [i \in P |-> both[i]]
        BY <3>2, <3>4
      <3>6. all = both
        BY <2>1, <3>3, <3>5
      <3> QED BY <3>6 DEF both
    <2>4. Filter(InHand \o Unread, K) = Filter(InHand, K) \o Filter(Unread, K)
      BY <2>1, <2>2, FilteredApart
    <2>5. Filter(WasRead \o Unread, K) = Filter(WasRead, K) \o Filter(Unread, K)
      BY <2>1, <2>2, FilteredApart
    <2>6. a \o Filter(InHand, K) = Filter(WasRead, K)
      BY Zenon DEF ReaderInv, ReadInOrder
    <2>7. a \in Seq(P) /\ Filter(InHand, K) \in Seq(P) /\ Filter(Unread, K) \in Seq(P)
      <3> HIDE DEF P, K
      <3>1. Filter(got, K) \in Seq(P \cap K) /\ Filter(InHand, K) \in Seq(P \cap K)
            /\ Filter(Unread, K) \in Seq(P \cap K)
        BY <2>1, <2>2, FilterType
      <3>2. /\ Filter(got, K) \in Seq(P) /\ Filter(InHand, K) \in Seq(P)
            /\ Filter(Unread, K) \in Seq(P)
        BY <3>1
      <3> QED BY <2>1, <3>2
    <2> HIDE DEF a, K, P
    <2>8. a \o (Filter(InHand, K) \o Filter(Unread, K))
          = (a \o Filter(InHand, K)) \o Filter(Unread, K)
      BY <2>7
    <2>9. a \o Filter(InHand \o Unread, K) = Filter(all, K)
      BY <2>3, <2>4, <2>5, <2>6, <2>8, Zenon
    <2> QED BY <2>9 DEF a, K
  <1> QED BY <1>1, ReaderInvAlways, PTL

\* jsonl.rs:459-466 and 515-528: for any limits, the bytes that are counted are those retained and
\* neither limit is passed.
THEOREM PendingIsExactAlways == ReaderSpec => []PendingIsExact
  <1>1. ReaderInv => PendingIsExact
    BY DEF ReaderInv
  <1> QED BY <1>1, ReaderInvAlways, PTL
===============================================================================
