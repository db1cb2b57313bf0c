--------------------------- MODULE Runtime_proofs ---------------------------
(***************************************************************************)
(* For every number of processes, set of nodes, set of durations and       *)
(* client: the runtime's types are kept, there are as many clock events as *)
(* processes hooked to the clock, every pid held anywhere was handed out   *)
(* before, and the clock heap stays ordered, although events are deleted   *)
(* through positions out of date: a pass therefore leaves none ready.  The *)
(* states of processes follow the diagram of proc.h.  Then the times, and  *)
(* run_for around the passes.                                              *)
(***************************************************************************)
EXTENDS RunFor, HeapOps_proofs, FiniteSetTheorems, TLAPS

Partial(K, V) == UNION {[D -> V] : D \in SUBSET K}

Event == [when : Nat, pid : Pid \cup {NullPid}]

Runtimes == [procs : Partial(Pid, Process), head : Partial(Pid, Slot),
             slot : [Slot -> Event], size : 0 .. Cap,
             waits : Partial(Data \cup Pid, Pid),
             next_pid : 1 .. MaxPid + 1, err : {0, -1}]

(* Pids held in links, lists and events were handed out before n.          *)
LinksOld(procs, n) == \A p \in DOMAIN procs : procs[p].prev < n /\ procs[p].next < n
WaitsOld(waits, n) == \A k \in DOMAIN waits : waits[k] < n
SlotsOld(slot, n)  == \A i \in Slot : slot[i].pid < n
OldEvent(n)        == {e \in Event : e.pid < n}

(* What every function of proc.c keeps.  The count needs the pids: a new   *)
(* process must not take the place of one that is hooked.                  *)
Sound(s) == /\ s \in Runtimes
            /\ DOMAIN s.head = DOMAIN s.procs
            /\ \A p \in DOMAIN s.procs : p < s.next_pid
            /\ s.size = Cardinality(Clocked(s))
            /\ Ordered(s)
            /\ LinksOld(s.procs, s.next_pid) /\ WaitsOld(s.waits, s.next_pid)
            /\ SlotsOld(s.slot, s.next_pid)

(* ... and leaves alone.                                                   *)
Same(s, t) == DOMAIN t.procs = DOMAIN s.procs /\ t.next_pid = s.next_pid

LEMMA PartialFacts ==
    ASSUME NEW K, NEW V, NEW f
    PROVE  f \in Partial(K, V) <=> DOMAIN f \subseteq K /\ f \in [DOMAIN f -> V]
BY DEF Partial

LEMMA DataFacts == Data \subseteq Nat /\ Durations \subseteq Data /\ Nodes \subseteq Data
                   /\ Causes \subseteq Data /\ Durations \subseteq Nat
BY ProcAssumption DEF Data, Causes

(* The fields of a sound runtime.                                          *)
LEMMA SoundFacts ==
    ASSUME NEW s, Sound(s)
    PROVE  /\ DOMAIN s.procs \subseteq Pid /\ s.procs \in [DOMAIN s.procs -> Process]
           /\ s.head \in [DOMAIN s.procs -> Slot]
           /\ DOMAIN s.waits \subseteq Data \cup Pid /\ s.waits \in [DOMAIN s.waits -> Pid]
           /\ IsHeap(s, Event, DOMAIN s.procs)
           /\ s.next_pid \in 1 .. MaxPid + 1
<1>1. /\ s.procs \in Partial(Pid, Process) /\ s.head \in Partial(Pid, Slot)
      /\ s.waits \in Partial(Data \cup Pid, Pid)
      /\ s.slot \in [Slot -> Event] /\ s.size \in 0 .. Cap
      /\ s.next_pid \in 1 .. MaxPid + 1
      /\ {"slot", "size", "head"} \subseteq DOMAIN s
      /\ DOMAIN s.head = DOMAIN s.procs
  BY DEF Sound, Runtimes
<1> QED BY <1>1, PartialFacts DEF IsHeap

(* The heap is one of events with old pids, and changing a process keeps   *)
(* the links old if its own are.                                           *)
LEMMA OldFacts ==
    ASSUME NEW s, Sound(s)
    PROVE  /\ IsHeap(s, OldEvent(s.next_pid), DOMAIN s.procs)
           /\ \A p \in DOMAIN s.procs : /\ p < s.next_pid
                                        /\ s.procs[p].prev < s.next_pid
                                        /\ s.procs[p].next < s.next_pid
           /\ NullPid < s.next_pid
<1>1. s.next_pid \in 1 .. MaxPid + 1
  BY SoundFacts
<1>2. NullPid < s.next_pid
  BY <1>1, ProcAssumption DEF NullPid
<1> QED BY <1>2, SoundFacts DEF Sound, SlotsOld, LinksOld, OldEvent, IsHeap

LEMMA OldSlots ==
    ASSUME NEW h, NEW n, NEW P, IsHeap(h, OldEvent(n), P)
    PROVE  SlotsOld(h.slot, n)
BY DEF IsHeap, OldEvent, SlotsOld

LEMMA OldLinks ==
    ASSUME NEW s, Sound(s), NEW p \in DOMAIN s.procs, NEW q,
           q.prev < s.next_pid, q.next < s.next_pid
    PROVE  LinksOld([s.procs EXCEPT ![p] = q], s.next_pid)
BY SoundFacts, OldFacts DEF LinksOld

(* What the lemmas about the order of heaps ask for.                       *)
LEMMA TimedFacts ==
    ASSUME NEW s, Sound(s)
    PROVE  /\ Timed(s) /\ {"slot", "size", "head"} \subseteq DOMAIN s /\ Ordered(s)
           /\ s.slot = [j \in Slot |-> s.slot[j]]
<1>1. \A j \in Slot : s.slot[j] \in Event
  BY SoundFacts DEF IsHeap
<1>2. \A j \in Slot : s.slot[j].when \in Int
  BY <1>1 DEF Event
<1> QED BY <1>2, SoundFacts DEF Timed, IsHeap, Sound

(* The processes hooked to the clock are finitely many, and no more than   *)
(* the heap has slots.  t is s with another p.                             *)
Others(s, t, p) ==
    /\ DOMAIN t.procs = DOMAIN s.procs
    /\ \A q \in DOMAIN s.procs \ {p} :
          t.procs[q].active = s.procs[q].active /\ t.procs[q].state = s.procs[q].state

LEMMA CountFacts ==
    ASSUME NEW s, NEW t, NEW p \in DOMAIN s.procs, DOMAIN s.procs \subseteq Pid,
           Others(s, t, p)
    PROVE  /\ Cardinality(Clocked(s)) \in 0 .. Cap
           /\ (p \in Clocked(s) <=> p \in Clocked(t)) =>
                  Cardinality(Clocked(t)) = Cardinality(Clocked(s))
           /\ p \notin Clocked(s) /\ p \in Clocked(t) =>
                  /\ Cardinality(Clocked(t)) = Cardinality(Clocked(s)) + 1
                  /\ Cardinality(Clocked(s)) < Cap
           /\ p \in Clocked(s) /\ p \notin Clocked(t) =>
                  /\ Cardinality(Clocked(t)) = Cardinality(Clocked(s)) - 1
                  /\ Cardinality(Clocked(s)) > 0
<1>1. IsFiniteSet(Pid) /\ Cardinality(Pid) = MaxPid
  BY FS_Interval, ProcAssumption DEF Pid
<1>2. Clocked(s) \subseteq Pid /\ Clocked(t) \subseteq Pid
  BY DEF Clocked, Others
<1>3. /\ IsFiniteSet(Clocked(s)) /\ Cardinality(Clocked(s)) \in Nat
      /\ IsFiniteSet(Clocked(t)) /\ Cardinality(Clocked(t)) \in Nat
      /\ Cardinality(Clocked(s)) <= MaxPid /\ Cardinality(Clocked(t)) <= MaxPid
  BY <1>1, <1>2, FS_Subset, FS_CardinalityType
<1>4. \A q : q # p => (q \in Clocked(s) <=> q \in Clocked(t))
  BY DEF Clocked, Others
<1>5. ASSUME p \in Clocked(s) <=> p \in Clocked(t)
      PROVE  Cardinality(Clocked(t)) = Cardinality(Clocked(s))
  <2>1. Clocked(s) = Clocked(t)
    BY <1>4, <1>5
  <2> QED BY <2>1
<1>6. ASSUME p \notin Clocked(s), p \in Clocked(t)
      PROVE  Cardinality(Clocked(t)) = Cardinality(Clocked(s)) + 1
  <2>1. Clocked(t) = Clocked(s) \cup {p}
    BY <1>4, <1>6
  <2> QED BY <2>1, <1>3, <1>6, FS_AddElement
<1>7. ASSUME p \in Clocked(s), p \notin Clocked(t)
      PROVE  Cardinality(Clocked(s)) = Cardinality(Clocked(t)) + 1
  <2>1. Clocked(s) = Clocked(t) \cup {p}
    BY <1>4, <1>7
  <2> QED BY <2>1, <1>3, <1>7, FS_AddElement
<1>8. MaxPid <= Cap /\ MaxPid \in Nat /\ Cap \in Nat
  BY ProcAssumption, CapAssumption
<1> QED BY <1>3, <1>5, <1>6, <1>7, <1>8

(* A heap operation on a runtime leaves a runtime, with another clock heap.*)
LEMMA HeapOnly ==
    ASSUME NEW s, Sound(s), NEW t, IsHeap(t, Event, DOMAIN s.procs),
           Alike(s, t, {"slot", "head", "size"})
    PROVE  /\ t \in Runtimes /\ DOMAIN t.head = DOMAIN t.procs
           /\ t.procs = s.procs /\ t.waits = s.waits /\ t.next_pid = s.next_pid
<1>1. /\ DOMAIN s = {"procs", "head", "slot", "size", "waits", "next_pid", "err"}
      /\ s \in Runtimes
  BY DEF Sound, Runtimes
<1>2. /\ t.procs = s.procs /\ t.waits = s.waits /\ t.next_pid = s.next_pid /\ t.err = s.err
      /\ t = [x \in {"procs", "head", "slot", "size", "waits", "next_pid", "err"} |-> t[x]]
  BY <1>1 DEF Alike
<1>3. t.head \in Partial(Pid, Slot) /\ DOMAIN t.head = DOMAIN s.procs
  BY SoundFacts, PartialFacts DEF IsHeap
<1>4. t.slot \in [Slot -> Event] /\ t.size \in 0 .. Cap
  BY DEF IsHeap
<1> QED BY <1>1, <1>2, <1>3, <1>4 DEF Runtimes

LEMMA ProcessFacts ==
    ASSUME NEW m \in Process, NEW a \in BOOLEAN, NEW x \in Pid \cup {NullPid},
           NEW y \in Pid \cup {NullPid}
    PROVE  LET n == [m EXCEPT !.active = a, !.prev = x, !.next = y]
           IN  /\ n \in Process /\ n.active = a /\ n.state = m.state /\ n.data = m.data
<1> DEFINE n == [m EXCEPT !.active = a, !.prev = x, !.next = y]
<1>1. n \in Process
  BY DEF Process
<1>2. n.active = a /\ n.state = m.state /\ n.data = m.data
  BY DEF Process
<1> QED BY <1>1, <1>2

(* Being hooked to the clock.                                              *)
OnClock(q) == q.active /\ q.state \in {"RUNNING", "SLEEPING"}

(* Changing one process.                                                   *)
LEMMA UpdateFacts ==
    ASSUME NEW s, Sound(s), NEW p \in DOMAIN s.procs, NEW q \in Process,
           NEW t, t.procs = [s.procs EXCEPT ![p] = q]
    PROVE  /\ t.procs \in [DOMAIN s.procs -> Process] /\ DOMAIN t.procs = DOMAIN s.procs
           /\ t.procs \in Partial(Pid, Process)
           /\ Others(s, t, p)
           /\ p \in Clocked(t) <=> q.active /\ q.state \in {"RUNNING", "SLEEPING"}
           /\ p \in Clocked(s) <=>
                 s.procs[p].active /\ s.procs[p].state \in {"RUNNING", "SLEEPING"}
<1>1. t.procs \in [DOMAIN s.procs -> Process] /\ DOMAIN t.procs = DOMAIN s.procs
  BY SoundFacts
<1>2. t.procs[p] = q /\ \A r \in DOMAIN s.procs \ {p} : t.procs[r] = s.procs[r]
  BY SoundFacts
<1>3. t.procs \in Partial(Pid, Process)
  BY <1>1, SoundFacts, PartialFacts
<1>4. Others(s, t, p)
  BY <1>1, <1>2 DEF Others
<1> QED BY <1>1, <1>2, <1>3, <1>4 DEF Clocked

LEMMA SchedFacts ==
    ASSUME NEW s, Sound(s), NEW p \in DOMAIN s.procs, clock \in Nat, NEW delta \in Nat,
           ~ s.procs[p].active, s.procs[p].state \in {"RUNNING", "SLEEPING"}
    PROVE  Sound(Sched(s, p, delta)) /\ Same(s, Sched(s, p, delta))
<1> DEFINE e == [when |-> IF delta = 0 THEN 0 ELSE clock + delta, pid |-> p]
           h == HeapPut(s, e)
           me == [s.procs[p] EXCEPT !.active = TRUE, !.prev = NullPid, !.next = NullPid]
           t == [h EXCEPT !.head[p] = PutAt(s, e),
                          !.procs[p] = [@ EXCEPT !.active = TRUE, !.prev = NullPid, !.next = NullPid],
                          !.err = 0]
<1>1. p \in Pid /\ e \in Event
  BY SoundFacts DEF Event
<1>2. /\ me \in Process /\ me.active /\ me.state \in {"RUNNING", "SLEEPING"}
      /\ me.prev = NullPid /\ me.next = NullPid
  <2> DEFINE m == s.procs[p]
  <2>1. m \in Process
    BY SoundFacts
  <2>2. m.state \in {"RUNNING", "SLEEPING"}
    OBVIOUS
  <2> HIDE DEF m
  <2>3. LET n == [m EXCEPT !.active = TRUE, !.prev = NullPid, !.next = NullPid]
        IN  n \in Process /\ n.active = TRUE /\ n.state = m.state
    <3>1. TRUE \in BOOLEAN /\ NullPid \in Pid \cup {NullPid}
      OBVIOUS
    <3> QED BY <2>1, <3>1, ProcessFacts, Zenon
  <2>4. LET n == [m EXCEPT !.active = TRUE, !.prev = NullPid, !.next = NullPid]
        IN  n.prev = NullPid /\ n.next = NullPid
    BY <2>1 DEF Process
  <2> QED BY <2>2, <2>3, <2>4 DEF m
<1>3. ASSUME NEW u, u.procs = [s.procs EXCEPT ![p] = me]
      PROVE  /\ u.procs \in Partial(Pid, Process) /\ DOMAIN u.procs = DOMAIN s.procs
             /\ s.size < Cap /\ Cardinality(Clocked(u)) = s.size + 1
  <2> HIDE DEF me
  <2>1. /\ u.procs \in Partial(Pid, Process) /\ Others(s, u, p) /\ DOMAIN u.procs = DOMAIN s.procs
        /\ p \notin Clocked(s) /\ p \in Clocked(u)
    BY <1>2, <1>3, UpdateFacts
  <2>2. s.size = Cardinality(Clocked(s)) /\ DOMAIN s.procs \subseteq Pid
    BY SoundFacts DEF Sound
  <2>3. Cardinality(Clocked(u)) = Cardinality(Clocked(s)) + 1 /\ Cardinality(Clocked(s)) < Cap
    BY <2>1, <2>2, CountFacts
  <2> QED BY <2>1, <2>2, <2>3
<1>4. s.size < Cap
  <2> DEFINE u == [s EXCEPT !.procs = [s.procs EXCEPT ![p] = me]]
  <2>1. u.procs = [s.procs EXCEPT ![p] = me]
    BY DEF Sound, Runtimes
  <2> QED BY <2>1, <1>3
<1>5. /\ IsHeap(h, Event, DOMAIN s.procs) /\ h.size = s.size + 1
      /\ Alike(s, h, {"slot", "head", "size"}) /\ PutAt(s, e) \in Slot
      /\ Ordered(h) /\ SlotsOld(h.slot, s.next_pid)
  <2> HIDE DEF e
  <2>1. e.when \in Int
    BY <1>1 DEF Event
  <2>2. /\ Timed(s) /\ {"slot", "size", "head"} \subseteq DOMAIN s /\ Ordered(s)
        /\ s.slot = [j \in Slot |-> s.slot[j]]
    BY TimedFacts
  <2>3. Ordered(HeapPut(s, e))
    BY <1>4, <2>1, <2>2, PutOrders
  <2>4. e \in OldEvent(s.next_pid)
    <3>1. e.pid = p
      BY DEF e
    <3> QED BY <1>1, <3>1, OldFacts DEF OldEvent
  <2>5. IsHeap(HeapPut(s, e), OldEvent(s.next_pid), DOMAIN s.procs)
    BY <1>4, <2>4, OldFacts, PutFacts
  <2>6. SlotsOld(HeapPut(s, e).slot, s.next_pid)
    BY <2>5, OldSlots
  <2> QED BY <1>1, <1>4, <2>3, <2>6, SoundFacts, PutFacts
<1> HIDE DEF h, e
<1>6. /\ h \in Runtimes /\ h.procs = s.procs /\ h.waits = s.waits /\ h.next_pid = s.next_pid
      /\ h.head \in [DOMAIN s.procs -> Slot]
  BY <1>5, HeapOnly DEF IsHeap
<1>7. /\ t.procs = [s.procs EXCEPT ![p] = me] /\ t.size = h.size /\ t.next_pid = s.next_pid
      /\ t.head \in [DOMAIN s.procs -> Slot]
      /\ t.err = 0 /\ t.waits = h.waits /\ t.slot = h.slot
      /\ t = [h EXCEPT !.head = t.head, !.procs = t.procs, !.err = 0]
  BY <1>5, <1>6 DEF Runtimes
<1>8. Sched(s, p, delta) = t
  BY DEF Sched, e, h
<1> HIDE DEF t, me
<1>9. /\ t.procs \in Partial(Pid, Process) /\ t.head \in Partial(Pid, Slot)
      /\ DOMAIN t.procs = DOMAIN s.procs /\ DOMAIN t.head = DOMAIN s.procs
      /\ Cardinality(Clocked(t)) = s.size + 1
  BY <1>3, <1>7, SoundFacts, PartialFacts
<1>10. t \in Runtimes
  BY <1>6, <1>7, <1>9 DEF Runtimes
<1>11. Ordered(t) /\ SlotsOld(t.slot, t.next_pid) /\ WaitsOld(t.waits, t.next_pid)
  BY <1>5, <1>6, <1>7 DEF Ordered, Sound
<1>12. LinksOld(t.procs, t.next_pid)
  <2>1. me.prev < s.next_pid /\ me.next < s.next_pid
    BY <1>2, OldFacts
  <2> QED BY <1>7, <2>1, OldLinks
<1> QED BY <1>5, <1>7, <1>8, <1>9, <1>10, <1>11, <1>12 DEF Sound, Same

(* A function that leaves the clock heap alone, and neither hooks a process *)
(* to the clock nor unhooks one.                                           *)
LEMMA UnclockedFacts ==
    ASSUME NEW s, Sound(s), NEW p \in DOMAIN s.procs,
           NEW t, t.procs \in [DOMAIN s.procs -> Process], Others(s, t, p),
           p \in Clocked(s) <=> p \in Clocked(t),
           t.waits \in Partial(Data \cup Pid, Pid), t.err \in {0, -1},
           LinksOld(t.procs, s.next_pid), WaitsOld(t.waits, s.next_pid),
           Alike(s, t, {"procs", "waits", "err"})
    PROVE  Sound(t) /\ Same(s, t)
<1>1. /\ DOMAIN s = {"procs", "head", "slot", "size", "waits", "next_pid", "err"}
      /\ s \in Runtimes
  BY DEF Sound, Runtimes
<1>2. /\ t.size = s.size /\ t.head = s.head /\ t.next_pid = s.next_pid /\ t.slot = s.slot
      /\ t = [x \in {"procs", "head", "slot", "size", "waits", "next_pid", "err"} |-> t[x]]
  BY <1>1 DEF Alike
<1>3. t.procs \in Partial(Pid, Process) /\ DOMAIN t.procs = DOMAIN s.procs
  BY SoundFacts, PartialFacts
<1>4. Cardinality(Clocked(t)) = Cardinality(Clocked(s))
  BY CountFacts, SoundFacts
<1>5. t \in Runtimes
  BY <1>1, <1>2, <1>3 DEF Runtimes
<1>6. Ordered(t) /\ SlotsOld(t.slot, s.next_pid)
  BY <1>2 DEF Sound, Ordered
<1> QED BY <1>2, <1>3, <1>4, <1>5, <1>6 DEF Sound, Same

(* One that only changes one process.                                      *)
LEMMA ProcOnly ==
    ASSUME NEW s, Sound(s), NEW p \in DOMAIN s.procs, NEW q \in Process,
           OnClock(q) <=> OnClock(s.procs[p]),
           NEW t, t.procs = [s.procs EXCEPT ![p] = q],
           t.waits \in Partial(Data \cup Pid, Pid), t.err \in {0, -1},
           q.prev < s.next_pid, q.next < s.next_pid, WaitsOld(t.waits, s.next_pid),
           Alike(s, t, {"procs", "waits", "err"})
    PROVE  Sound(t) /\ Same(s, t) /\ t.procs[p] = q
<1>1. t.procs \in [DOMAIN s.procs -> Process] /\ DOMAIN t.procs = DOMAIN s.procs /\ Others(s, t, p)
  BY UpdateFacts
<1>2. t.procs[p] = q
  BY SoundFacts
<1>3. p \in Clocked(t) <=> OnClock(q)
  BY <1>1, <1>2, Zenon DEF Clocked, OnClock
<1>4. p \in Clocked(s) <=> OnClock(s.procs[p])
  BY Zenon DEF Clocked, OnClock
<1>5. p \in Clocked(s) <=> p \in Clocked(t)
  BY <1>3, <1>4, Zenon
<1>6. LinksOld(t.procs, s.next_pid)
  BY OldLinks
<1> QED BY <1>1, <1>2, <1>5, <1>6, UnclockedFacts

LEMMA ErrFacts ==
    ASSUME NEW s, Sound(s), NEW err \in {0, -1}, NEW t, t = [s EXCEPT !.err = err]
    PROVE  Sound(t) /\ Same(s, t) /\ t.procs = s.procs /\ t.err = err
<1>1. /\ s \in Runtimes /\ t.err = err /\ t.procs = s.procs
      /\ t.size = s.size /\ t.slot = s.slot /\ t.head = s.head /\ t.next_pid = s.next_pid
      /\ t.waits = s.waits
  BY DEF Sound, Runtimes
<1>2. t \in Runtimes
  BY <1>1 DEF Runtimes
<1>3. Clocked(t) = Clocked(s) /\ (Ordered(s) => Ordered(t))
  BY <1>1 DEF Clocked, Ordered
<1> QED BY <1>1, <1>2, <1>3 DEF Sound, Same

(* What unhooking leaves of the process.                                   *)
Unhooked(s, t, p) == /\ Sound(t) /\ Same(s, t)
                     /\ t.procs[p].state = s.procs[p].state
                     /\ t.procs[p].data = s.procs[p].data
                     /\ t.err = 0 => ~ t.procs[p].active

LEMMA DeschedFacts ==
    ASSUME NEW s, Sound(s), NEW p \in DOMAIN s.procs,
           s.procs[p].active, s.procs[p].state \in {"RUNNING", "SLEEPING"}
    PROVE  Unhooked(s, Desched(s, p), p)
<1> DEFINE h == HeapDelete(s, s.head[p])
           q == [s.procs[p] EXCEPT !.active = FALSE]
           t == [h EXCEPT !.procs[p].active = FALSE, !.err = 0]
<1>1. /\ q \in Process /\ ~ q.active
      /\ q.state = s.procs[p].state /\ q.data = s.procs[p].data
      /\ q.prev = s.procs[p].prev /\ q.next = s.procs[p].next
  <2>1. s.procs[p] \in Process
    BY SoundFacts
  <2>2. /\ q \in Process /\ q.active = FALSE
        /\ q.state = s.procs[p].state /\ q.data = s.procs[p].data
        /\ q.prev = s.procs[p].prev /\ q.next = s.procs[p].next
    BY <2>1 DEF Process
  <2> QED BY <2>2
<1> HIDE DEF q
<1>2. ASSUME NEW u, u.procs = [s.procs EXCEPT ![p] = q]
      PROVE  /\ u.procs \in Partial(Pid, Process) /\ DOMAIN u.procs = DOMAIN s.procs
             /\ s.size > 0 /\ Cardinality(Clocked(u)) = s.size - 1
             /\ u.procs[p] = q
  <2>1. /\ u.procs \in Partial(Pid, Process) /\ Others(s, u, p) /\ DOMAIN u.procs = DOMAIN s.procs
        /\ p \in Clocked(s) /\ p \notin Clocked(u)
    BY <1>1, <1>2, UpdateFacts
  <2>2. s.size = Cardinality(Clocked(s)) /\ DOMAIN s.procs \subseteq Pid
    BY SoundFacts DEF Sound
  <2>3. Cardinality(Clocked(u)) = Cardinality(Clocked(s)) - 1 /\ Cardinality(Clocked(s)) > 0
    BY <2>1, <2>2, CountFacts
  <2> QED BY <1>2, <2>1, <2>2, <2>3, SoundFacts
<1>3. s.size > 0 /\ s.head[p] \in Slot
  <2> DEFINE u == [s EXCEPT !.procs = [s.procs EXCEPT ![p] = q]]
  <2>1. u.procs = [s.procs EXCEPT ![p] = q]
    BY DEF Sound, Runtimes
  <2> QED BY <2>1, <1>2, SoundFacts
<1>4. /\ IsHeap(h, Event, DOMAIN s.procs) /\ h.size = s.size - 1
      /\ Alike(s, h, {"slot", "head", "size"})
      /\ Ordered(h) /\ SlotsOld(h.slot, s.next_pid)
  <2>1. /\ Timed(s) /\ {"slot", "size", "head"} \subseteq DOMAIN s /\ Ordered(s)
        /\ s.slot = [j \in Slot |-> s.slot[j]]
    BY TimedFacts
  <2>2. Ordered(HeapDelete(s, s.head[p]))
    BY <1>3, <2>1, DeleteOrders
  <2>3. IsHeap(HeapDelete(s, s.head[p]), OldEvent(s.next_pid), DOMAIN s.procs)
    BY <1>3, OldFacts, DeleteFacts
  <2>4. SlotsOld(HeapDelete(s, s.head[p]).slot, s.next_pid)
    BY <2>3, OldSlots
  <2> QED BY <1>3, <2>2, <2>4, SoundFacts, DeleteFacts
<1>5. t = [h EXCEPT !.procs = [h.procs EXCEPT ![p] = [h.procs[p] EXCEPT !.active = FALSE]], !.err = 0]
      /\ Desched(s, p) = t
  BY DEF Desched
<1> HIDE DEF h, t
<1>6. /\ h \in Runtimes /\ h.procs = s.procs /\ h.next_pid = s.next_pid
      /\ DOMAIN h.head = DOMAIN s.procs /\ h.waits = s.waits
  BY <1>4, HeapOnly
<1>7. t.procs = [s.procs EXCEPT ![p] = q]
  BY <1>5, <1>6 DEF Runtimes, q
<1>8. /\ t.size = h.size /\ t.next_pid = s.next_pid /\ t.head = h.head /\ t.err = 0
      /\ t.slot = h.slot /\ t.waits = h.waits
      /\ t = [h EXCEPT !.procs = t.procs, !.err = 0]
  BY <1>5, <1>6 DEF Runtimes
<1>9. /\ t.procs \in Partial(Pid, Process) /\ DOMAIN t.procs = DOMAIN s.procs
      /\ Cardinality(Clocked(t)) = s.size - 1 /\ t.procs[p] = q
  BY <1>2, <1>7
<1>10. t \in Runtimes
  BY <1>6, <1>8, <1>9 DEF Runtimes
<1>11. /\ Ordered(t) /\ SlotsOld(t.slot, t.next_pid) /\ WaitsOld(t.waits, t.next_pid)
       /\ LinksOld(t.procs, t.next_pid)
  <2>1. q.prev < s.next_pid /\ q.next < s.next_pid
    BY <1>1, OldFacts
  <2>2. LinksOld(t.procs, t.next_pid)
    BY <1>7, <1>8, <2>1, OldLinks
  <2> QED BY <1>4, <1>6, <1>8, <2>2 DEF Ordered, Sound
<1>12. Sound(t) /\ Same(s, t)
  BY <1>4, <1>6, <1>8, <1>9, <1>10, <1>11 DEF Sound, Same
<1> QED BY <1>1, <1>5, <1>8, <1>9, <1>12 DEF Unhooked

LEMMA WaitResumeFacts ==
    ASSUME NEW s, Sound(s), NEW p \in DOMAIN s.procs, s.procs[p].state = "WAITING"
    PROVE  Sound(WaitResume(s, p)) /\ Same(s, WaitResume(s, p))
<1> DEFINE node == s.procs[p].data
           key == IF node \in DOMAIN s.waits THEN node ELSE p
           first == IF node \in DOMAIN s.waits THEN s.waits[node] ELSE NullPid
           q == [s.procs[p] EXCEPT !.active = TRUE, !.prev = NullPid, !.next = first]
           w == [k \in DOMAIN s.waits \cup {key} |-> IF k = key THEN p ELSE s.waits[k]]
           t == [s EXCEPT !.waits = w,
                          !.procs[p] = [@ EXCEPT !.active = TRUE, !.prev = NullPid, !.next = first],
                          !.err = 0]
<1>1. /\ s.procs[p] \in Process /\ p \in Pid
      /\ DOMAIN s.waits \subseteq Data \cup Pid /\ s.waits \in [DOMAIN s.waits -> Pid]
  BY SoundFacts
<1>2. w \in Partial(Data \cup Pid, Pid)
  <2>1. key \in Data \cup Pid
    BY <1>1
  <2> HIDE DEF key
  <2>2. w \in [DOMAIN w -> Pid] /\ DOMAIN w \subseteq Data \cup Pid
    BY <1>1, <2>1
  <2> QED BY <2>2, PartialFacts
<1>3. first \in Pid \cup {NullPid} /\ NullPid \in Pid \cup {NullPid} /\ TRUE \in BOOLEAN
  BY <1>1
<1>10. first < s.next_pid /\ NullPid < s.next_pid /\ WaitsOld(w, s.next_pid)
  BY OldFacts DEF Sound, WaitsOld
<1> HIDE DEF w, first
<1>4. q \in Process /\ q.state = s.procs[p].state /\ q.prev = NullPid /\ q.next = first
  <2> DEFINE m == s.procs[p]
  <2> HIDE DEF m
  <2>1. m \in Process
    BY <1>1 DEF m
  <2>2. LET n == [m EXCEPT !.active = TRUE, !.prev = NullPid, !.next = first]
        IN  n \in Process /\ n.state = m.state
    BY <2>1, <1>3, ProcessFacts, Zenon
  <2>3. LET n == [m EXCEPT !.active = TRUE, !.prev = NullPid, !.next = first]
        IN  n.prev = NullPid /\ n.next = first
    BY <2>1 DEF Process
  <2> QED BY <2>2, <2>3, Zenon DEF m
<1>5. ~ (q.state \in {"RUNNING", "SLEEPING"}) /\ ~ (s.procs[p].state \in {"RUNNING", "SLEEPING"})
  BY <1>4
<1>6. /\ t.procs = [s.procs EXCEPT ![p] = q] /\ t.waits = w /\ t.err = 0
      /\ Alike(s, t, {"procs", "waits", "err"})
  BY DEF Sound, Runtimes, Alike
<1>7. t = WaitResume(s, p)
  BY DEF WaitResume, w, first
<1> HIDE DEF t, q
<1>8. OnClock(q) <=> OnClock(s.procs[p])
  BY <1>5, Zenon DEF OnClock
<1>9. Sound(t) /\ Same(s, t)
  <2>1. q \in Process /\ t.err \in {0, -1} /\ q.prev < s.next_pid /\ q.next < s.next_pid
        /\ WaitsOld(t.waits, s.next_pid)
    BY <1>4, <1>6, <1>10
  <2> QED BY <1>2, <1>6, <1>8, <2>1, ProcOnly
<1> QED BY <1>7, <1>9, Zenon

LEMMA WaitSuspendFacts ==
    ASSUME NEW s, Sound(s), NEW p \in DOMAIN s.procs, s.procs[p].state = "WAITING"
    PROVE  Unhooked(s, WaitSuspend(s, p), p)
<1> DEFINE me == s.procs[p]
           link == [q \in DOMAIN s.procs |->
                        [s.procs[q] EXCEPT
                            !.next = IF q = me.prev THEN me.next ELSE @,
                            !.prev = IF q = me.next THEN me.prev ELSE @]]
           off == [me EXCEPT !.active = FALSE, !.prev = NullPid, !.next = NullPid]
           w == IF me.prev = NullPid THEN Beheaded(s.waits, me) ELSE s.waits
           bad == [s EXCEPT !.procs = link, !.err = -1]
           good == [s EXCEPT !.waits = w, !.procs = [link EXCEPT ![p] = off], !.err = 0]
<1>1. /\ \A q \in DOMAIN s.procs : s.procs[q] \in Process
      /\ DOMAIN s.waits \subseteq Data \cup Pid /\ s.waits \in [DOMAIN s.waits -> Pid]
      /\ s.waits \in Partial(Data \cup Pid, Pid)
  BY SoundFacts, PartialFacts
<1>2. me \in Process /\ me.next \in Pid \cup {NullPid} /\ me.prev \in Pid \cup {NullPid}
  BY <1>1 DEF Process
<1>3. /\ link \in [DOMAIN s.procs -> Process]
      /\ \A q \in DOMAIN s.procs :
            /\ link[q].active = s.procs[q].active /\ link[q].state = s.procs[q].state
            /\ link[q].data = s.procs[q].data
            /\ link[q].prev < s.next_pid /\ link[q].next < s.next_pid
  <2> SUFFICES ASSUME NEW q \in DOMAIN s.procs
               PROVE  /\ link[q] \in Process
                      /\ link[q].active = s.procs[q].active /\ link[q].state = s.procs[q].state
                      /\ link[q].data = s.procs[q].data
                      /\ link[q].prev < s.next_pid /\ link[q].next < s.next_pid
    OBVIOUS
  <2> DEFINE m == s.procs[q]
             n == IF q = me.prev THEN me.next ELSE m.next
             v == IF q = me.next THEN me.prev ELSE m.prev
  <2>1. m \in Process /\ m.next \in Pid \cup {NullPid} /\ m.prev \in Pid \cup {NullPid}
    BY <1>1 DEF Process
  <2>2. n \in Pid \cup {NullPid} /\ v \in Pid \cup {NullPid}
    BY <1>2, <2>1
  <2>3. link[q] = [m EXCEPT !.next = n, !.prev = v]
    OBVIOUS
  <2>5. n < s.next_pid /\ v < s.next_pid
    BY OldFacts
  <2> HIDE DEF m, n, v, link
  <2>4. /\ [m EXCEPT !.next = n, !.prev = v] \in Process
        /\ [m EXCEPT !.next = n, !.prev = v].active = m.active
        /\ [m EXCEPT !.next = n, !.prev = v].state = m.state
        /\ [m EXCEPT !.next = n, !.prev = v].data = m.data
        /\ [m EXCEPT !.next = n, !.prev = v].prev = v
        /\ [m EXCEPT !.next = n, !.prev = v].next = n
    BY <2>1, <2>2 DEF Process
  <2> QED BY <2>3, <2>4, <2>5 DEF m
<1>4. /\ off \in Process /\ off.active = FALSE /\ off.state = me.state /\ off.data = me.data
      /\ off.prev = NullPid /\ off.next = NullPid
  <2> HIDE DEF me
  <2>1. FALSE \in BOOLEAN /\ NullPid \in Pid \cup {NullPid}
    OBVIOUS
  <2>2. off \in Process /\ off.active = FALSE /\ off.state = me.state /\ off.data = me.data
    BY <1>2, <2>1, ProcessFacts, Zenon
  <2>3. off.prev = NullPid /\ off.next = NullPid
    BY <1>2 DEF Process, off
  <2> QED BY <2>2, <2>3
<1>5. w \in Partial(Data \cup Pid, Pid)
  <2> DEFINE b == Beheaded(s.waits, me)
  <2>1. b \in [DOMAIN b -> Pid] /\ DOMAIN b \subseteq DOMAIN s.waits
    BY <1>1, <1>2 DEF Beheaded
  <2> HIDE DEF b
  <2>2. b \in Partial(Data \cup Pid, Pid)
    BY <1>1, <2>1, PartialFacts
  <2> QED BY <1>1, <2>2 DEF b
<1>9. WaitsOld(w, s.next_pid) /\ WaitsOld(s.waits, s.next_pid)
  <2>1. me.next < s.next_pid /\ WaitsOld(s.waits, s.next_pid)
    BY OldFacts DEF Sound
  <2> QED BY <2>1 DEF WaitsOld, Beheaded
<1> HIDE DEF link, off, w
<1>6. Unhooked(s, bad, p)
  <2>1. /\ bad.procs = link /\ bad.err = -1 /\ bad.waits = s.waits
        /\ Alike(s, bad, {"procs", "waits", "err"})
    BY DEF Sound, Runtimes, Alike
  <2> HIDE DEF bad
  <2>2. Others(s, bad, p) /\ p \notin Clocked(s) /\ p \notin Clocked(bad)
    BY <2>1, <1>3 DEF Others, Clocked
  <2>3. Sound(bad) /\ Same(s, bad)
    <3>1. LinksOld(bad.procs, s.next_pid) /\ WaitsOld(bad.waits, s.next_pid)
      BY <1>3, <1>9, <2>1 DEF LinksOld
    <3> QED BY <1>1, <1>3, <2>1, <2>2, <3>1, UnclockedFacts
  <2> QED BY <1>3, <2>1, <2>3 DEF Unhooked
<1>7. Unhooked(s, good, p)
  <2>1. /\ good.procs = [link EXCEPT ![p] = off] /\ good.err = 0 /\ good.waits = w
        /\ Alike(s, good, {"procs", "waits", "err"})
    BY DEF Sound, Runtimes, Alike
  <2> HIDE DEF good, me
  <2>2. /\ good.procs \in [DOMAIN s.procs -> Process] /\ good.procs[p] = off
        /\ \A q \in DOMAIN s.procs \ {p} : good.procs[q] = link[q]
    BY <1>3, <1>4, <2>1
  <2>3. Others(s, good, p) /\ p \notin Clocked(s) /\ p \notin Clocked(good)
    BY <2>2, <1>3, <1>4 DEF Others, Clocked, me
  <2>4. Sound(good) /\ Same(s, good)
    <3>1. LinksOld(good.procs, s.next_pid)
      BY <1>3, <1>4, <2>2, OldFacts DEF LinksOld
    <3> QED BY <1>5, <1>9, <2>1, <2>2, <2>3, <3>1, UnclockedFacts
  <2> QED BY <1>4, <2>1, <2>2, <2>4 DEF Unhooked, me
<1>8. WaitSuspend(s, p) = bad \/ WaitSuspend(s, p) = good
  <2>1. /\ Fail([s EXCEPT !.procs = link]) = bad
        /\ [[s EXCEPT !.procs = link] EXCEPT !.waits = w, !.procs[p] = off, !.err = 0] = good
    BY DEF Fail, Sound, Runtimes
  <2>2. [s EXCEPT !.procs = link].waits = s.waits
    BY DEF Sound, Runtimes
  <2> DEFINE c == me.prev = NullPid /\ me.data \notin DOMAIN s.waits
             r == [s EXCEPT !.procs = link]
             v == IF me.prev = NullPid THEN Beheaded(r.waits, me) ELSE r.waits
  <2>3. WaitSuspend(s, p) = IF c THEN Fail(r)
                            ELSE [r EXCEPT !.waits = v, !.procs[p] = off, !.err = 0]
    BY Zenon DEF WaitSuspend, link, off
  <2>4. v = w
    BY <2>2 DEF w
  <2> HIDE DEF c, r, v, good, bad
  <2>5. c => WaitSuspend(s, p) = Fail(r)
    BY <2>3
  <2>6. ~ c => WaitSuspend(s, p) = [r EXCEPT !.waits = w, !.procs[p] = off, !.err = 0]
    BY <2>3, <2>4
  <2> QED BY <2>1, <2>5, <2>6 DEF r
<1> HIDE DEF bad, good
<1> QED BY <1>6, <1>7, <1>8

LEMMA SuspendFacts ==
    ASSUME NEW s, Sound(s), NEW p \in DOMAIN s.procs
    PROVE  Unhooked(s, Suspend(s, p), p)
<1> DEFINE me == s.procs[p]
<1>1. me \in Process /\ me.active \in BOOLEAN /\ me.state \in States
  BY SoundFacts DEF Process
<1>2. CASE ~ me.active
  <2>1. Suspend(s, p) = [s EXCEPT !.err = 0]
    BY <1>2 DEF Suspend, Ok
  <2> QED BY <1>2, <2>1, ErrFacts DEF Unhooked
<1>3. CASE me.active /\ me.state = "WAITING"
  <2>1. Suspend(s, p) = WaitSuspend(s, p)
    BY <1>3 DEF Suspend
  <2> QED BY <1>3, <2>1, WaitSuspendFacts
<1>4. CASE me.active /\ me.state = "DEAD"
  <2> DEFINE q == [me EXCEPT !.active = FALSE]
             t == [s EXCEPT !.procs = [s.procs EXCEPT ![p] = q], !.err = 0]
  <2>1. Suspend(s, p) = t
    BY <1>4 DEF Suspend
  <2>2. /\ q \in Process /\ q.active = FALSE /\ q.state = me.state /\ q.data = me.data
        /\ q.prev = me.prev /\ q.next = me.next
    BY <1>1 DEF Process
  <2> HIDE DEF q
  <2>3. /\ t.procs = [s.procs EXCEPT ![p] = q] /\ t.err = 0 /\ t.waits = s.waits
        /\ Alike(s, t, {"procs", "waits", "err"})
        /\ s.waits \in Partial(Data \cup Pid, Pid)
    BY DEF Sound, Runtimes, Alike
  <2> HIDE DEF t
  <2>4. OnClock(q) <=> OnClock(me)
    BY <1>4, <2>2 DEF OnClock
  <2>5. Sound(t) /\ Same(s, t)
    <3>1. q \in Process /\ t.err \in {0, -1} /\ q.prev < s.next_pid /\ q.next < s.next_pid
          /\ WaitsOld(t.waits, s.next_pid)
      BY <2>2, <2>3, OldFacts DEF Sound
    <3> QED BY <2>3, <2>4, <3>1, ProcOnly
  <2>6. t.procs[p] = q
    BY <2>3, SoundFacts
  <2> QED BY <2>1, <2>2, <2>5, <2>6 DEF Unhooked
<1>5. CASE me.active /\ me.state \notin {"WAITING", "DEAD"}
  <2>1. Suspend(s, p) = Desched(s, p)
    BY <1>5 DEF Suspend
  <2>2. me.state \in {"RUNNING", "SLEEPING"}
    BY <1>1, <1>5 DEF States
  <2> QED BY <1>5, <2>1, <2>2, DeschedFacts
<1> QED BY <1>1, <1>2, <1>3, <1>4, <1>5

LEMMA ResumeFacts ==
    ASSUME NEW s, Sound(s), NEW p \in DOMAIN s.procs, clock \in Nat
    PROVE  Sound(Resume(s, p)) /\ Same(s, Resume(s, p))
<1> DEFINE me == s.procs[p]
<1>1. /\ me \in Process /\ me.active \in BOOLEAN /\ me.state \in States
      /\ me.data \in Nat /\ me.period \in Nat
  BY SoundFacts, DataFacts DEF Process
<1>2. CASE me.active
  <2>1. Resume(s, p) = [s EXCEPT !.err = 0]
    BY <1>2 DEF Resume, Ok
  <2> QED BY <2>1, ErrFacts
<1>3. CASE ~ me.active /\ me.state = "WAITING"
  <2>1. Resume(s, p) = WaitResume(s, p)
    BY <1>3 DEF Resume
  <2> QED BY <1>3, <2>1, WaitResumeFacts
<1>4. CASE ~ me.active /\ me.state = "DEAD"
  <2> DEFINE q == [me EXCEPT !.active = TRUE]
             t == [s EXCEPT !.procs = [s.procs EXCEPT ![p] = q], !.err = 0]
  <2>1. Resume(s, p) = t
    BY <1>4 DEF Resume
  <2>2. q \in Process /\ q.state = me.state /\ q.prev = me.prev /\ q.next = me.next
    BY <1>1 DEF Process
  <2> HIDE DEF q
  <2>3. /\ t.procs = [s.procs EXCEPT ![p] = q] /\ t.err = 0 /\ t.waits = s.waits
        /\ Alike(s, t, {"procs", "waits", "err"})
        /\ s.waits \in Partial(Data \cup Pid, Pid)
    BY DEF Sound, Runtimes, Alike
  <2> HIDE DEF t
  <2>4. OnClock(q) <=> OnClock(me)
    BY <1>4, <2>2 DEF OnClock
  <2>5. Sound(t) /\ Same(s, t)
    <3>1. t.err \in {0, -1} /\ q.prev < s.next_pid /\ q.next < s.next_pid
          /\ WaitsOld(t.waits, s.next_pid)
      BY <2>2, <2>3, OldFacts DEF Sound
    <3> QED BY <2>2, <2>3, <2>4, <3>1, ProcOnly
  <2> QED BY <2>1, <2>5
<1>5. CASE ~ me.active /\ me.state = "SLEEPING"
  <2>1. Resume(s, p) = Sched(s, p, me.data)
    BY <1>5 DEF Resume
  <2> QED BY <1>1, <1>5, <2>1, SchedFacts
<1>6. CASE ~ me.active /\ me.state = "RUNNING"
  <2>1. Resume(s, p) = Sched(s, p, me.period)
    BY <1>6 DEF Resume
  <2> QED BY <1>1, <1>6, <2>1, SchedFacts
<1> QED BY <1>1, <1>2, <1>3, <1>4, <1>5, <1>6 DEF States

(* Writing the state or the union of a process that is unhooked, or the    *)
(* union of any.                                                           *)
Rewritten(m, q) == /\ q.active = m.active /\ (q.state = m.state \/ ~ m.active)
                   /\ q.prev = m.prev /\ q.next = m.next

LEMMA SetFacts ==
    ASSUME NEW s, Sound(s), NEW p \in DOMAIN s.procs, NEW q \in Process,
           Rewritten(s.procs[p], q),
           NEW t, t.procs = [s.procs EXCEPT ![p] = q], t.err \in {0, -1},
           Alike(s, t, {"procs", "err"})
    PROVE  Sound(t) /\ Same(s, t) /\ t.procs[p] = q
<1>1. OnClock(q) <=> OnClock(s.procs[p])
  BY DEF OnClock, Rewritten
<1>2. t.waits \in Partial(Data \cup Pid, Pid) /\ Alike(s, t, {"procs", "waits", "err"})
      /\ t.waits = s.waits
  BY DEF Sound, Runtimes, Alike
<1>3. WaitsOld(t.waits, s.next_pid) /\ q.prev < s.next_pid /\ q.next < s.next_pid
  BY <1>2, OldFacts DEF Sound, Rewritten
<1> QED BY <1>1, <1>2, <1>3, ProcOnly, Zenon

LEMMA EnterFacts ==
    ASSUME NEW s, Sound(s), NEW p \in DOMAIN s.procs, clock \in Nat,
           NEW state \in States, NEW data \in Data
    PROVE  Sound(Enter(s, p, state, data)) /\ Same(s, Enter(s, p, state, data))
<1> DEFINE off == Suspend(s, p)
           q == [off.procs[p] EXCEPT !.state = state, !.data = data]
           set == [off EXCEPT !.procs[p].state = state, !.procs[p].data = data]
<1>1. Unhooked(s, off, p)
  BY SuspendFacts
<1> HIDE DEF off
<1>2. CASE off.err # 0
  <2>1. Enter(s, p, state, data) = off
    BY <1>2, Zenon DEF Enter, off
  <2> QED BY <1>1, <2>1 DEF Unhooked
<1>3. CASE off.err = 0
  <2>1. Sound(off) /\ Same(s, off) /\ ~ off.procs[p].active /\ p \in DOMAIN off.procs
    BY <1>1, <1>3 DEF Unhooked, Same
  <2>2. q \in Process /\ Rewritten(off.procs[p], q)
    <3>1. off.procs[p] \in Process
      BY <2>1, SoundFacts
    <3> QED BY <3>1, <2>1 DEF Process, Rewritten
  <2>3. /\ set.procs = [off.procs EXCEPT ![p] = q] /\ set.err \in {0, -1}
        /\ Alike(off, set, {"procs", "err"})
    BY <2>1, SoundFacts DEF Sound, Runtimes, Alike
  <2> HIDE DEF q, set
  <2>4. Sound(set) /\ Same(off, set)
    BY <2>1, <2>2, <2>3, SetFacts
  <2>5. Sound(Resume(set, p)) /\ Same(set, Resume(set, p))
    BY <2>1, <2>4, ResumeFacts DEF Same
  <2>6. Enter(s, p, state, data) \in {set, Resume(set, p)}
    BY <1>3 DEF Enter, off, set
  <2> QED BY <2>1, <2>4, <2>5, <2>6 DEF Same
<1> QED BY <1>2, <1>3

(* The calls that change a process.                                        *)
LEMMA CallFacts ==
    ASSUME NEW s, Sound(s), NEW p \in DOMAIN s.procs, clock \in Nat
    PROVE  /\ Sound(Cancel(s, p)) /\ Same(s, Cancel(s, p))
           /\ \A n \in Nodes : Sound(Wait(s, p, n)) /\ Same(s, Wait(s, p, n))
           /\ \A d \in Durations : Sound(Sleep(s, p, d)) /\ Same(s, Sleep(s, p, d))
<1>1. s.procs[p].data \in Data /\ Nodes \subseteq Data /\ Durations \subseteq Data
  BY SoundFacts, DataFacts DEF Process
<1>2. {"RUNNING", "WAITING", "SLEEPING"} \subseteq States
  BY DEF States
<1>3. Sound(Fail(s)) /\ Same(s, Fail(s))
  BY ErrFacts DEF Fail
<1>4. /\ Cancel(s, p) \in {Fail(s), Enter(s, p, "RUNNING", s.procs[p].data)}
      /\ \A n : Wait(s, p, n) \in {Fail(s), Enter(s, p, "WAITING", n)}
      /\ \A d : Sleep(s, p, d) \in {Fail(s), Enter(s, p, "SLEEPING", d)}
  BY DEF Cancel, Wait, Sleep
<1>5. \A state \in {"RUNNING", "WAITING", "SLEEPING"}, data \in Data :
          Sound(Enter(s, p, state, data)) /\ Same(s, Enter(s, p, state, data))
  BY <1>2, EnterFacts
<1> QED BY <1>1, <1>3, <1>4, <1>5

LEMMA DieFacts ==
    ASSUME NEW s, Sound(s), NEW p \in DOMAIN s.procs, NEW cause \in Causes
    PROVE  Sound(Die(s, p, cause)) /\ Same(s, Die(s, p, cause))
<1> DEFINE off == IF s.procs[p].state = "DEAD" THEN Ok(s) ELSE Suspend(s, p)
           q == [off.procs[p] EXCEPT !.state = "DEAD", !.data = cause]
           set == [off EXCEPT !.procs[p].state = "DEAD", !.procs[p].data = cause]
<1>1. /\ Sound(off) /\ Same(s, off)
      /\ off.err = 0 => off.procs[p].state = "DEAD" \/ ~ off.procs[p].active
  <2>1. CASE s.procs[p].state = "DEAD"
    <3>1. Sound(Ok(s)) /\ Same(s, Ok(s)) /\ Ok(s).procs = s.procs
      BY ErrFacts DEF Ok
    <3> QED BY <2>1, <3>1
  <2>2. CASE s.procs[p].state # "DEAD"
    <3>1. Unhooked(s, Suspend(s, p), p)
      BY SuspendFacts
    <3> QED BY <2>2, <3>1 DEF Unhooked
  <2> QED BY <2>1, <2>2
<1>2. Die(s, p, cause) = IF off.err # 0 THEN off ELSE set
  BY Zenon DEF Die
<1> HIDE DEF off
<1>3. CASE off.err = 0
  <2>1. p \in DOMAIN off.procs /\ off.procs[p] \in Process
    BY <1>1, SoundFacts DEF Same
  <2>2. q \in Process /\ Rewritten(off.procs[p], q)
    <3>1. cause \in Data /\ "DEAD" \in States
      BY DataFacts DEF States
    <3> QED BY <1>1, <1>3, <2>1, <3>1 DEF Process, Rewritten
  <2>3. /\ set.procs = [off.procs EXCEPT ![p] = q] /\ set.err \in {0, -1}
        /\ Alike(off, set, {"procs", "err"})
    BY <1>1, <2>1, SoundFacts DEF Sound, Runtimes, Alike
  <2> HIDE DEF q, set
  <2>4. Sound(set) /\ Same(off, set)
    BY <1>1, <2>1, <2>2, <2>3, SetFacts
  <2> QED BY <1>1, <1>2, <1>3, <2>4 DEF Same
<1> QED BY <1>1, <1>2, <1>3

LEMMA SetPeriodFacts ==
    ASSUME NEW s, Sound(s), NEW p \in DOMAIN s.procs, clock \in Nat, NEW d \in Durations
    PROVE  Sound(SetPeriod(s, p, d)) /\ Same(s, SetPeriod(s, p, d))
<1> DEFINE running == s.procs[p].state = "RUNNING" /\ s.procs[p].active
           off == IF running THEN Suspend(s, p) ELSE Ok(s)
           q == [off.procs[p] EXCEPT !.data = d]
           set == [off EXCEPT !.procs[p].data = d]
<1>1. Sound(off) /\ Same(s, off)
  <2>1. Sound(Ok(s)) /\ Same(s, Ok(s))
    BY ErrFacts DEF Ok
  <2>2. Unhooked(s, Suspend(s, p), p)
    BY SuspendFacts
  <2> QED BY <2>1, <2>2 DEF Unhooked
<1>2. SetPeriod(s, p, d) \in {off, set, Resume(set, p)}
  BY Zenon DEF SetPeriod
<1> HIDE DEF off
<1>3. p \in DOMAIN off.procs /\ off.procs[p] \in Process
  BY <1>1, SoundFacts DEF Same
<1>4. q \in Process /\ Rewritten(off.procs[p], q)
  <2>1. d \in Data
    BY DataFacts
  <2> QED BY <1>3, <2>1 DEF Process, Rewritten
<1>5. /\ set.procs = [off.procs EXCEPT ![p] = q] /\ set.err \in {0, -1}
      /\ Alike(off, set, {"procs", "err"})
  BY <1>1, <1>3, SoundFacts DEF Sound, Runtimes, Alike
<1> HIDE DEF q, set
<1>6. Sound(set) /\ Same(off, set)
  BY <1>1, <1>3, <1>4, <1>5, SetFacts
<1>7. Sound(Resume(set, p)) /\ Same(set, Resume(set, p))
  BY <1>3, <1>6, ResumeFacts DEF Same
<1> QED BY <1>1, <1>2, <1>6, <1>7 DEF Same

LEMMA WakeFacts ==
    ASSUME NEW s, Sound(s), NEW p \in DOMAIN s.procs, clock \in Nat
    PROVE  Sound(Wake(s, p)) /\ Same(s, Wake(s, p))
<1> DEFINE off == Suspend(s, p)
           q == [off.procs[p] EXCEPT !.state = "RUNNING"]
           set == [off EXCEPT !.procs[p].state = "RUNNING"]
<1>1. Unhooked(s, off, p)
  BY SuspendFacts
<1>2. Wake(s, p) = IF off.err # 0 THEN off ELSE Resume(set, p)
  BY Zenon DEF Wake
<1> HIDE DEF off
<1>3. CASE off.err = 0
  <2>1. Sound(off) /\ Same(s, off) /\ ~ off.procs[p].active /\ p \in DOMAIN off.procs
    BY <1>1, <1>3 DEF Unhooked, Same
  <2>2. q \in Process /\ Rewritten(off.procs[p], q)
    <3>1. off.procs[p] \in Process /\ "RUNNING" \in States
      BY <2>1, SoundFacts DEF States
    <3> QED BY <3>1, <2>1 DEF Process, Rewritten
  <2>3. /\ set.procs = [off.procs EXCEPT ![p] = q] /\ set.err \in {0, -1}
        /\ Alike(off, set, {"procs", "err"})
    BY <2>1, SoundFacts DEF Sound, Runtimes, Alike
  <2> HIDE DEF q, set
  <2>4. Sound(set) /\ Same(off, set)
    BY <2>1, <2>2, <2>3, SetFacts
  <2>5. Sound(Resume(set, p)) /\ Same(set, Resume(set, p))
    BY <2>1, <2>4, ResumeFacts DEF Same
  <2> QED BY <1>2, <1>3, <2>1, <2>4, <2>5 DEF Same
<1> QED BY <1>1, <1>2, <1>3 DEF Unhooked

LEMMA ProcInitFacts ==
    ASSUME NEW s, Sound(s), s.next_pid \in Pid, NEW d \in Durations
    PROVE  LET t == ProcInit(s, d)
           IN  /\ Sound(t) /\ DOMAIN t.procs = DOMAIN s.procs \cup {s.next_pid}
               /\ t.next_pid = s.next_pid + 1
<1> DEFINE pid == s.next_pid
           new == [active |-> FALSE, state |-> "RUNNING", prev |-> NullPid, next |-> NullPid,
                   period |-> d, data |-> 0]
           procs == [q \in DOMAIN s.procs \cup {pid} |-> IF q = pid THEN new ELSE s.procs[q]]
           head == [q \in DOMAIN s.head \cup {pid} |-> IF q = pid THEN 0 ELSE s.head[q]]
           t == [s EXCEPT !.procs = procs, !.head = head, !.next_pid = pid + 1, !.err = 0]
<1>1. /\ DOMAIN s.procs \subseteq Pid /\ s.procs \in [DOMAIN s.procs -> Process]
      /\ s.head \in [DOMAIN s.procs -> Slot] /\ pid \notin DOMAIN s.procs
      /\ s.size = Cardinality(Clocked(s)) /\ \A p \in DOMAIN s.procs : p < pid
  BY SoundFacts, ProcAssumption DEF Sound, Pid
<1>2. new \in Process /\ new.active = FALSE
  <2>1. 0 \in Data /\ "RUNNING" \in States
    BY DataFacts DEF Causes, States
  <2> QED BY <2>1 DEF Process
<1> HIDE DEF new
<1>3. /\ procs \in Partial(Pid, Process) /\ DOMAIN procs = DOMAIN s.procs \cup {pid}
      /\ procs[pid] = new /\ \A q \in DOMAIN s.procs : procs[q] = s.procs[q]
  <2>1. /\ procs \in [DOMAIN s.procs \cup {pid} -> Process]
        /\ procs[pid] = new /\ \A q \in DOMAIN s.procs : procs[q] = s.procs[q]
    BY <1>1, <1>2
  <2> HIDE DEF procs
  <2> QED BY <2>1, <1>1, PartialFacts
<1>4. head \in Partial(Pid, Slot) /\ DOMAIN head = DOMAIN s.procs \cup {pid}
  <2>1. head \in [DOMAIN s.procs \cup {pid} -> Slot]
    BY <1>1, SlotFacts
  <2> HIDE DEF head
  <2> QED BY <2>1, <1>1, PartialFacts
<1>5. pid + 1 \in 1 .. MaxPid + 1 /\ \A p \in DOMAIN s.procs \cup {pid} : p < pid + 1
  BY <1>1, ProcAssumption DEF Pid
<1> HIDE DEF procs, head
<1>6. /\ t.procs = procs /\ t.head = head /\ t.next_pid = pid + 1 /\ t.size = s.size
      /\ s \in Runtimes /\ t.slot = s.slot
  BY DEF Sound, Runtimes
<1>7. t \in Runtimes
  BY <1>3, <1>4, <1>5, <1>6 DEF Runtimes
<1>8. ProcInit(s, d) = t
  BY DEF ProcInit, procs, head, new
<1> HIDE DEF t
<1>9. Clocked(t) = Clocked(s)
  BY <1>1, <1>2, <1>3, <1>6 DEF Clocked
<1>10. /\ Ordered(t) /\ SlotsOld(t.slot, t.next_pid) /\ WaitsOld(t.waits, t.next_pid)
       /\ LinksOld(t.procs, t.next_pid)
  <2>1. t.waits = s.waits /\ pid \in Nat /\ new.prev < pid + 1 /\ new.next < pid + 1
    BY <1>6, ProcAssumption DEF Runtimes, t, new, NullPid
  <2>2. SlotsOld(t.slot, t.next_pid)
    <3>1. \A i \in Slot : s.slot[i].pid \in Int
      BY SoundFacts DEF IsHeap, Event, Pid, NullPid
    <3> QED BY <1>6, <2>1, <3>1 DEF Sound, SlotsOld
  <2>3. WaitsOld(t.waits, t.next_pid)
    <3>1. \A k \in DOMAIN s.waits : s.waits[k] \in Int
      BY SoundFacts DEF Pid
    <3> QED BY <1>6, <2>1, <3>1 DEF Sound, WaitsOld
  <2>4. LinksOld(t.procs, t.next_pid)
    <3>1. \A p \in DOMAIN s.procs : s.procs[p].prev \in Int /\ s.procs[p].next \in Int
      BY <1>1 DEF Process, Pid, NullPid
    <3> QED BY <1>3, <1>6, <2>1, <3>1 DEF Sound, LinksOld
  <2> QED BY <1>6, <2>2, <2>3, <2>4 DEF Sound, Ordered
<1> QED BY <1>1, <1>3, <1>4, <1>5, <1>6, <1>7, <1>8, <1>9, <1>10 DEF Sound

LEMMA ProcKillFacts ==
    ASSUME NEW s, Sound(s), NEW p \in DOMAIN s.procs
    PROVE  Sound(ProcKill(s, p))
<1> DEFINE off == Suspend(s, p)
           procs == [q \in DOMAIN off.procs \ {p} |-> off.procs[q]]
           head == [q \in DOMAIN off.head \ {p} |-> off.head[q]]
           t == [off EXCEPT !.procs = procs, !.head = head]
<1>1. Unhooked(s, off, p)
  BY SuspendFacts
<1>2. ProcKill(s, p) = IF off.err # 0 THEN off ELSE t
  BY Zenon DEF ProcKill, Removed
<1> HIDE DEF off
<1>3. CASE off.err = 0
  <2>1. /\ Sound(off) /\ ~ off.procs[p].active /\ off \in Runtimes
        /\ DOMAIN off.procs \subseteq Pid /\ off.procs \in [DOMAIN off.procs -> Process]
        /\ off.head \in [DOMAIN off.procs -> Slot]
    BY <1>1, <1>3, SoundFacts DEF Unhooked, Sound
  <2>2. procs \in [DOMAIN off.procs \ {p} -> Process] /\ head \in [DOMAIN off.procs \ {p} -> Slot]
    BY <2>1
  <2>3. /\ procs \in Partial(Pid, Process) /\ head \in Partial(Pid, Slot)
        /\ DOMAIN procs = DOMAIN off.procs \ {p} /\ DOMAIN head = DOMAIN off.procs \ {p}
        /\ \A q \in DOMAIN off.procs \ {p} : procs[q] = off.procs[q]
    <3>1. \A q \in DOMAIN off.procs \ {p} : procs[q] = off.procs[q]
      OBVIOUS
    <3> HIDE DEF procs, head
    <3> QED BY <2>1, <2>2, <3>1, PartialFacts
  <2> HIDE DEF procs, head
  <2>4. /\ t.procs = procs /\ t.head = head /\ t.next_pid = off.next_pid /\ t.size = off.size
        /\ t \in Runtimes /\ t.slot = off.slot /\ t.waits = off.waits
    BY <2>1, <2>3 DEF Runtimes
  <2> HIDE DEF t
  <2>5. Clocked(t) = Clocked(off)
    BY <2>1, <2>3, <2>4 DEF Clocked
  <2>6. /\ Ordered(t) /\ SlotsOld(t.slot, t.next_pid) /\ WaitsOld(t.waits, t.next_pid)
        /\ LinksOld(t.procs, t.next_pid)
    BY <2>1, <2>3, <2>4 DEF Sound, Ordered, LinksOld
  <2> QED BY <1>2, <1>3, <2>1, <2>3, <2>4, <2>5, <2>6 DEF Sound
<1> QED BY <1>1, <1>2, <1>3 DEF Unhooked

(***************************************************************************)
(* The invariant.  A step that changes the processes in the middle of a    *)
(* pass is about run.cur, which the loop over an event's processes has     *)
(* looked up; only the embedding program removes processes.                *)
(***************************************************************************)
Locals == [cur : Pid \cup {NullPid}, next : Pid \cup {NullPid}, count : Nat,
           mods : Seq(Nodes), wake : Pid \cup {NullPid}, reason : Causes]

ThreadOK == /\ clock \in Nat
            /\ pc \in {"api", "pass", "list", "mods", "wake"}
            /\ pass \in [now : Nat, rcount : Nat]
            /\ run \in Locals
            /\ pc \in {"mods", "wake"} => run.cur \in Procs
            /\ pc = "wake" => run.wake \in Pid

IInv == Sound(rt) /\ ThreadOK

LEMMA NoRunFacts == NoRun \in Locals /\ NoPass \in [now : Nat, rcount : Nat]
<1>1. NoCause \in Causes /\ <<>> \in Seq(Nodes) /\ 0 \in Nat
  BY DEF Causes, NoCause
<1> QED BY <1>1 DEF NoRun, NoPass, Locals

LEMMA InitFacts == Init => IInv
<1> SUFFICES ASSUME Init PROVE IInv
  OBVIOUS
<1>1. /\ rt.procs = [p \in {} |-> NoPass] /\ rt.head = [p \in {} |-> 0]
      /\ rt.slot = [i \in Slot |-> [when |-> 0, pid |-> NullPid]] /\ rt.size = 0
      /\ rt.waits = [k \in {} |-> NullPid] /\ rt.next_pid = 1 /\ rt.err = 0
  BY DEF Init
<1>2. rt.procs \in Partial(Pid, Process) /\ rt.head \in Partial(Pid, Slot)
      /\ rt.waits \in Partial(Data \cup Pid, Pid)
  <2>1. /\ DOMAIN rt.procs = {} /\ rt.procs \in [{} -> Process]
        /\ DOMAIN rt.head = {} /\ rt.head \in [{} -> Slot]
        /\ DOMAIN rt.waits = {} /\ rt.waits \in [{} -> Pid]
    BY <1>1
  <2> QED BY <2>1, PartialFacts
<1>3. rt.slot \in [Slot -> Event] /\ rt.size \in 0 .. Cap /\ rt.next_pid \in 1 .. MaxPid + 1
  BY <1>1, CapAssumption, ProcAssumption DEF Event
<1>4. rt \in Runtimes
  BY <1>2, <1>3, <1>1 DEF Init, Runtimes
<1>5. Clocked(rt) = {} /\ DOMAIN rt.procs = {} /\ DOMAIN rt.head = {}
  BY <1>1 DEF Clocked
<1>6. Sound(rt)
  <2>1. /\ Ordered(rt) /\ SlotsOld(rt.slot, rt.next_pid) /\ WaitsOld(rt.waits, rt.next_pid)
        /\ LinksOld(rt.procs, rt.next_pid)
    BY <1>1 DEF Ordered, SlotsOld, WaitsOld, LinksOld, NullPid
  <2> QED BY <1>1, <1>4, <1>5, <2>1, FS_EmptySet DEF Sound
<1>7. ThreadOK
  BY NoRunFacts DEF Init, ThreadOK
<1> QED BY <1>6, <1>7 DEF IInv

(* What the embedding program may do.                                      *)
LEMMA ApiFacts == IInv /\ Api => IInv'
<1> SUFFICES ASSUME IInv, Api PROVE IInv'
  OBVIOUS
<1> USE DEF IInv
<1>1. pc = "api" /\ clock \in Nat /\ UNCHANGED <<program, clock, pc, pass, run>>
  BY DEF Api, CreateProc, KillProc, SuspendProc, ResumeProc, CancelProc, WaitProc, SleepProc,
         DieProc, PeriodProc, Call, ThreadOK
<1>2. ThreadOK'
  BY <1>1 DEF ThreadOK
<1>3. Killed \in Causes
  BY DEF Killed, Causes
<1>4. Sound(rt')
  <2>1. ASSUME NEW d \in Durations, CreateProc(d) PROVE Sound(rt')
    BY <2>1, ProcInitFacts DEF CreateProc, RoomForProc, Call
  <2>2. ASSUME NEW p \in Procs,
               KillProc(p) \/ SuspendProc(p) \/ ResumeProc(p) \/ CancelProc(p) \/ DieProc(p)
        PROVE  Sound(rt')
    <3>1. rt' \in {ProcKill(rt, p), Suspend(rt, p), Resume(rt, p), Cancel(rt, p), Die(rt, p, Killed)}
      BY <2>2 DEF KillProc, SuspendProc, ResumeProc, CancelProc, DieProc, Call
    <3>2. /\ Sound(ProcKill(rt, p)) /\ Sound(Suspend(rt, p)) /\ Sound(Resume(rt, p))
          /\ Sound(Die(rt, p, Killed))
      BY <1>1, <1>3, ProcKillFacts, SuspendFacts, ResumeFacts, DieFacts DEF Procs, Unhooked
    <3>3. Sound(Cancel(rt, p))
      BY <1>1, CallFacts DEF Procs
    <3> QED BY <3>1, <3>2, <3>3
  <2>3. ASSUME NEW p \in Procs, NEW n \in Nodes, WaitProc(p, n) PROVE Sound(rt')
    BY <2>3, <1>1, CallFacts DEF WaitProc, Call, Procs
  <2>4. ASSUME NEW p \in Procs, NEW d \in Durations, SleepProc(p, d) \/ PeriodProc(p, d)
        PROVE  Sound(rt')
    BY <2>4, <1>1, CallFacts, SetPeriodFacts DEF SleepProc, PeriodProc, Call, Procs
  <2> QED BY <2>1, <2>2, <2>3, <2>4 DEF Api
<1> QED BY <1>2, <1>4

(* A step of the loops may change rt only to a runtime that is sound and   *)
(* has the same processes, or more.                                        *)
LEMMA ReturnFacts ==
    ASSUME IInv, NEW err \in {0, -1}, Return(err)
    PROVE  IInv'
<1>1. Sound(rt') /\ pc' = "api"
  BY ErrFacts DEF IInv, Return
<1>2. ThreadOK'
  BY <1>1, NoRunFacts DEF IInv, ThreadOK, Return
<1> QED BY <1>1, <1>2 DEF IInv

LEMMA GoOnFacts ==
    ASSUME IInv, NEW r \in Locals, GoOn(r), UNCHANGED clock, Sound(rt')
    PROVE  IInv'
<1>1. pc' \in {"list", "pass"} /\ clock' \in Nat /\ clock \in Nat
  BY DEF GoOn, IInv, ThreadOK
<1>2. run' \in Locals
  <2>1. [NoRun EXCEPT !.cur = r.next, !.count = r.count] \in Locals
    BY NoRunFacts DEF Locals
  <2> QED BY <2>1, NoRunFacts DEF GoOn
<1>3. pass' \in [now : Nat, rcount : Nat]
  <2>1. r.count \in Nat /\ pass \in [now : Nat, rcount : Nat]
    BY DEF Locals, IInv, ThreadOK
  <2> QED BY <1>1, <2>1 DEF GoOn
<1> QED BY <1>1, <1>2, <1>3 DEF IInv, ThreadOK

LEMMA VisitedFacts ==
    ASSUME Sound(rt), run \in Locals, run.cur \in Procs
    PROVE  Visited \in Locals /\ Visited.cur = run.cur
<1> DEFINE next == rt.procs[run.cur].next
<1>1. next \in Pid \cup {NullPid}
  <2>1. rt.procs[run.cur] \in Process
    BY SoundFacts DEF Procs
  <2> QED BY <2>1 DEF Process
<1> DEFINE count == IF run.count > MinCycles THEN run.count ELSE run.count + 1
<1>2. count \in Nat
  BY DEF Locals
<1>3. Visited = [run EXCEPT !.next = next, !.count = count]
  BY DEF Visited
<1> HIDE DEF next, count
<1> QED BY <1>1, <1>2, <1>3 DEF Locals

LEMMA StepFacts ==
    ASSUME IInv, NEW s, NEW mods \in Mods, NEW reason \in Causes, Step(s, mods, reason),
           Sound(s), Procs \subseteq DOMAIN s.procs
    PROVE  IInv'
<1>1. Sound(rt') /\ Procs \subseteq Procs'
  <2>1. Sound(Ok(s)) /\ Same(s, Ok(s))
    BY ErrFacts DEF Ok
  <2>2. rt' = Ok(s)
    BY DEF Step
  <2> QED BY <2>1, <2>2 DEF Same, Procs
<1>2. run' \in Locals /\ run'.cur = run.cur
  <2>1. Sound(rt) /\ run \in Locals /\ mods \in Seq(Nodes) /\ run.cur \in Procs
    BY RuntimeAssumption DEF IInv, ThreadOK, Step, Runnable
  <2>3. Visited \in Locals /\ Visited.cur = run.cur
    BY <2>1, VisitedFacts
  <2>4. run' = [Visited EXCEPT !.mods = mods, !.reason = reason]
    BY DEF Step
  <2> QED BY <2>1, <2>3, <2>4 DEF Locals
<1> QED BY <1>1, <1>2 DEF IInv, ThreadOK, Step, Runnable

LEMMA InstructionFacts == IInv /\ Instruction => IInv'
<1> SUFFICES ASSUME IInv, NEW mods \in Mods,
                    \/ StepPlain(mods) \/ StepFork(mods)
                    \/ \E n \in Nodes : StepWait(n, mods)
                    \/ \E d \in Durations : StepSleep(d, mods)
                    \/ \E c \in Ends : StepEnd(c, mods)
             PROVE  IInv'
  BY DEF Instruction
<1>1. Sound(rt) /\ clock \in Nat
  BY DEF IInv, ThreadOK
<1>2. /\ {CauseNull, NoCause, Exited, BadInst, BadData} \subseteq Causes
      /\ \A s : Returned(s) \in Causes
  BY DEF Causes, Returned, CauseNull, NoCause, Exited, BadInst, BadData, Internal
<1>3. run.cur \in Procs
  BY DEF StepPlain, StepFork, StepWait, StepSleep, StepEnd, Step, Runnable
<1>4. ASSUME StepPlain(mods) PROVE IInv'
  BY <1>1, <1>2, <1>4, StepFacts DEF StepPlain, Procs
<1>5. ASSUME StepFork(mods) PROVE IInv'
  <2> DEFINE d == rt.procs[run.cur].period
             s == ProcInit(rt, d)
             t == Resume(s, rt.next_pid)
  <2>1. rt.next_pid \in Pid /\ Step(t, mods, Returned(t))
    BY <1>5 DEF StepFork, RoomForProc
  <2>2. d \in Durations
    BY <1>1, <1>3, SoundFacts DEF Procs, Process
  <2> HIDE DEF d
  <2>3. Sound(s) /\ DOMAIN s.procs = Procs \cup {rt.next_pid}
    BY <1>1, <2>1, <2>2, ProcInitFacts DEF Procs
  <2> HIDE DEF s
  <2>4. Sound(t) /\ DOMAIN t.procs = DOMAIN s.procs
    BY <1>1, <2>3, ResumeFacts DEF Same
  <2> HIDE DEF t
  <2> QED BY <1>2, <2>1, <2>3, <2>4, StepFacts
<1>6. ASSUME NEW n \in Nodes, StepWait(n, mods) PROVE IInv'
  <2>1. Sound(Wait(rt, run.cur, n)) /\ DOMAIN Wait(rt, run.cur, n).procs = Procs
    BY <1>1, <1>3, CallFacts DEF Same, Procs
  <2> QED BY <1>2, <1>6, <2>1, StepFacts DEF StepWait
<1>7. ASSUME NEW d \in Durations, StepSleep(d, mods) PROVE IInv'
  <2>1. Sound(Sleep(rt, run.cur, d)) /\ DOMAIN Sleep(rt, run.cur, d).procs = Procs
    BY <1>1, <1>3, CallFacts DEF Same, Procs
  <2> QED BY <1>2, <1>7, <2>1, StepFacts DEF StepSleep
<1>8. ASSUME NEW c \in Ends, StepEnd(c, mods) PROVE IInv'
  BY <1>1, <1>2, <1>8, RuntimeAssumption, StepFacts DEF StepEnd, Procs
<1> QED BY <1>4, <1>5, <1>6, <1>7, <1>8

LEMMA AdvanceFacts == IInv /\ Advance => IInv'
<1> SUFFICES ASSUME IInv, Advance PROVE IInv'
  OBVIOUS
<1>1. /\ Sound(rt) /\ clock \in Nat /\ run \in Locals
      /\ pass \in [now : Nat, rcount : Nat]
  BY DEF IInv, ThreadOK
<1>2. CASE EndPass \/ EventOfNobody \/ LinkToNobody
  BY <1>2, ReturnFacts DEF EndPass, EventOfNobody, LinkToNobody
<1>3. CASE WakeSleeper
  <2>1. Sound(rt')
    BY <1>1, <1>3, CallFacts DEF WakeSleeper, Procs
  <2> QED BY <1>3, <2>1 DEF IInv, ThreadOK, WakeSleeper
<1>4. CASE StartEvent
  <2> DEFINE p == rt.slot[0].pid
             h == [rt EXCEPT !.slot[0].when = @ + OnePeriod(p)]
  <2>1. p \in Procs /\ p \in Pid /\ OnePeriod(p) \in Nat /\ 0 \in Slot
    BY <1>1, <1>4, SoundFacts, DataFacts, SlotFacts DEF StartEvent, OnePeriod, Procs, Process
  <2>2. IsHeap(h, Event, Procs) /\ h.size = rt.size /\ Alike(rt, h, {"slot"})
    <3> DEFINE e == [rt.slot[0] EXCEPT !.when = @ + OnePeriod(p)]
    <3>1. IsHeap(rt, Event, Procs)
      BY <1>1, SoundFacts DEF Procs
    <3>2. e \in Event
      <4>1. rt.slot[0] \in Event
        BY <2>1, <3>1 DEF IsHeap
      <4> HIDE DEF p
      <4> QED BY <2>1, <4>1 DEF Event
    <3>3. h = [rt EXCEPT !.slot = [rt.slot EXCEPT ![0] = e]]
      OBVIOUS
    <3> HIDE DEF e, h
    <3> QED BY <3>1, <3>2, <3>3 DEF IsHeap, Alike
  <2>3. rt' = Readjust(h, 0)
    BY <1>4 DEF StartEvent
  <2> HIDE DEF h
  <2>4. IsHeap(rt', Event, Procs) /\ rt'.size = rt.size /\ Alike(rt, rt', {"slot", "head", "size"})
    BY <2>1, <2>2, <2>3, ReadjustFacts DEF Alike
  <2>5. /\ rt' \in Runtimes /\ DOMAIN rt'.head = DOMAIN rt'.procs
        /\ rt'.procs = rt.procs /\ rt'.next_pid = rt.next_pid
    BY <1>1, <2>4, HeapOnly DEF Procs
  <2>6. Sound(rt')
    <3>1. Ordered(Readjust(h, 0))
      <4>1. Timed(rt) /\ {"slot", "size", "head"} \subseteq DOMAIN rt /\ Ordered(rt)
        BY <1>1, TimedFacts
      <4>2. h.slot[0] \in Event /\ {"slot", "size", "head"} \subseteq DOMAIN h
        BY <2>1, <2>2 DEF IsHeap
      <4>3. h.slot[0].when \in Int
        BY <4>2 DEF Event
      <4>4. \A j \in Slot : j # 0 => h.slot[j] = rt.slot[j]
        BY <1>1 DEF h, Sound, Runtimes
      <4> QED BY <2>2, <4>1, <4>2, <4>3, <4>4, MovedOrders
    <3>2. IsHeap(h, OldEvent(rt.next_pid), Procs)
      <4>1. IsHeap(rt, OldEvent(rt.next_pid), Procs)
        BY <1>1, OldFacts DEF Procs
      <4>2. h.slot[0] \in Event /\ h.slot[0].pid = rt.slot[0].pid
        BY <1>1, <2>1, <2>2 DEF h, Sound, Runtimes, Event, IsHeap
      <4>3. h.slot[0] \in OldEvent(rt.next_pid)
        BY <2>1, <4>1, <4>2 DEF IsHeap, OldEvent
      <4>4. h.slot \in [Slot -> Event] /\ \A j \in Slot : j # 0 => h.slot[j] = rt.slot[j]
        BY <1>1, <2>2 DEF h, Sound, Runtimes, IsHeap
      <4> QED BY <2>2, <4>1, <4>3, <4>4 DEF IsHeap
    <3>3. SlotsOld(rt'.slot, rt.next_pid)
      BY <2>1, <2>3, <3>2, ReadjustFacts, OldSlots
    <3>4. rt'.waits = rt.waits
      BY <1>1, <2>4, HeapOnly DEF Procs
    <3> QED BY <1>1, <2>3, <2>4, <2>5, <3>1, <3>3, <3>4 DEF Sound, Clocked
  <2>7. run' \in Locals /\ pc' = "list" /\ UNCHANGED <<clock, pass>>
    BY <1>4, <2>1, NoRunFacts DEF StartEvent, Locals
  <2> QED BY <1>1, <2>6, <2>7 DEF IInv, ThreadOK
<1>5. CASE VisitIdle
  <2>1. Visited \in Locals
    BY <1>1, <1>5, VisitedFacts DEF VisitIdle
  <2> QED BY <1>1, <1>5, <2>1, GoOnFacts DEF VisitIdle
<1>6. CASE Instruction
  BY <1>6, InstructionFacts
<1>7. CASE CheckMod
  <2>1. Tail(run.mods) \in Seq(Nodes)
    BY <1>1, <1>7 DEF CheckMod, Locals
  <2>2. \A n \in DOMAIN rt.waits : rt.waits[n] \in Pid
    BY <1>1, SoundFacts
  <2>3. run' \in Locals /\ run'.cur = run.cur /\ (pc' = "wake" => run'.wake \in Pid)
    BY <1>1, <1>7, <2>1, <2>2 DEF CheckMod, Locals
  <2> QED BY <1>1, <1>7, <2>3 DEF IInv, ThreadOK, CheckMod, Procs
<1>8. CASE WakeNext
  <2> DEFINE p == run.wake
             s == Wake(rt, p)
  <2>1. run.wake \in Pid /\ run.cur \in Procs
    BY <1>8 DEF IInv, ThreadOK, WakeNext
  <2>2. ASSUME p \in Procs
        PROVE  Sound(rt') /\ Procs' = Procs /\ rt.procs[p].next \in Pid \cup {NullPid}
    <3>1. Sound(s) /\ Same(rt, s) /\ rt.procs[p] \in Process
      BY <1>1, <2>2, WakeFacts, SoundFacts DEF Procs
    <3>2. Sound(Ok(s)) /\ Same(s, Ok(s))
      BY <3>1, ErrFacts DEF Ok
    <3>3. rt' = Ok(s)
      BY <1>8, <2>2 DEF WakeNext
    <3> QED BY <3>1, <3>2, <3>3 DEF Same, Procs, Process
  <2>3. Sound(rt') /\ Procs' = Procs
    BY <1>1, <1>8, <2>2 DEF WakeNext, Procs
  <2>4. run' \in Locals /\ run'.cur = run.cur /\ (pc' = "wake" => run'.wake \in Pid)
    BY <1>1, <1>8, <2>2 DEF WakeNext, Locals
  <2> QED BY <1>1, <1>8, <2>1, <2>3, <2>4 DEF IInv, ThreadOK, WakeNext
<1>9. CASE EndStep
  <2>1. Sound(rt')
    <3>1. run.cur \in Procs /\ run.reason \in Causes
      BY <1>1, <1>9 DEF EndStep, IInv, ThreadOK, Locals
    <3>2. Sound(Ok(Die(rt, run.cur, run.reason)))
      BY <1>1, <3>1, DieFacts, ErrFacts DEF Ok, Procs
    <3> QED BY <1>1, <1>9, <3>2 DEF EndStep
  <2> QED BY <1>1, <1>9, <2>1, GoOnFacts DEF EndStep
<1> QED BY <1>2, <1>3, <1>4, <1>5, <1>6, <1>7, <1>8, <1>9 DEF Advance

LEMMA Inductive == IInv /\ [Next]_vars => IInv'
<1> SUFFICES ASSUME IInv, [Next]_vars PROVE IInv'
  OBVIOUS
<1>1. CASE Api
  BY <1>1, ApiFacts
<1>2. CASE RunReady
  <2>1. Sound(rt')
    BY <1>2, ErrFacts DEF RunReady, IInv, Ok
  <2> QED BY <1>2, <2>1 DEF IInv, ThreadOK, RunReady
<1>3. CASE Advance
  BY <1>3, AdvanceFacts
<1>4. CASE Tick
  BY <1>4 DEF Tick, IInv, ThreadOK, Procs
<1>5. CASE UNCHANGED vars
  BY <1>5 DEF vars, IInv, ThreadOK, Procs
<1> QED BY <1>1, <1>2, <1>3, <1>4, <1>5 DEF Next

(* The embedding program is the same throughout.                           *)
LEMMA ProgramKept == [Next]_vars => program' = program
<1> SUFFICES ASSUME [Next]_vars PROVE program' = program
  OBVIOUS
<1>1. CASE Api
  BY <1>1 DEF Api, CreateProc, KillProc, SuspendProc, ResumeProc, CancelProc, WaitProc, SleepProc,
              DieProc, PeriodProc, Call
<1>2. CASE Instruction
  BY <1>2 DEF Instruction, StepPlain, StepFork, StepWait, StepSleep, StepEnd, Step
<1>3. CASE Advance /\ ~ Instruction
  BY <1>3 DEF Advance, EndPass, EventOfNobody, LinkToNobody, Return, WakeSleeper, StartEvent,
              VisitIdle, CheckMod, WakeNext, EndStep
<1>4. CASE RunReady \/ Tick \/ UNCHANGED vars
  BY <1>4 DEF RunReady, Tick, vars
<1> QED BY <1>1, <1>2, <1>3, <1>4 DEF Next

(* Whatever the embedding program calls and the instructions do, every     *)
(* field of the runtime and of its processes keeps its type: no pointer    *)
(* into the clock heap leaves the vector, the heap never outgrows it.      *)
THEOREM RuntimeTypes == Spec => []TypeOK
<1>1. IInv /\ program \in Programs => TypeOK
  <2> SUFFICES ASSUME IInv, program \in Programs PROVE TypeOK
    OBVIOUS
  <2>1. Sound(rt) /\ ThreadOK
    BY DEF IInv
  <2>2. /\ rt.procs \in [Procs -> Process] /\ Procs \subseteq Pid /\ rt.head \in [Procs -> Slot]
        /\ rt.waits \in [DOMAIN rt.waits -> Pid] /\ DOMAIN rt.waits \subseteq Data \cup Pid
    BY <2>1, SoundFacts DEF Procs
  <2>3. /\ rt.slot \in [Slot -> Event] /\ rt.size \in 0 .. Cap
        /\ rt.next_pid \in 1 .. MaxPid + 1 /\ rt.err \in {0, -1}
    BY <2>1 DEF Sound, Runtimes
  <2> QED BY <2>1, <2>2, <2>3 DEF TypeOK, ThreadOK, Event, Locals
<1>2. Init => IInv /\ program \in Programs
  BY InitFacts DEF Init
<1>3. IInv /\ program \in Programs /\ [Next]_vars => (IInv /\ program \in Programs)'
  BY Inductive, ProgramKept
<1> QED BY <1>1, <1>2, <1>3, PTL DEF Spec

(* At every moment there are exactly as many clock events as processes     *)
(* that are running or sleeping and hooked, though not always their own.   *)
THEOREM EventsMatchProcesses == Spec => []ClockedCount
<1>1. IInv => ClockedCount
  BY DEF IInv, Sound, ClockedCount
<1> QED BY <1>1, InitFacts, Inductive, PTL DEF Spec

(* The clock heap is in order, although processes unhook through positions *)
(* that are out of date: the event on top, the only one run_cready looks   *)
(* at, is an earliest one.                                                 *)
THEOREM StaysOrdered == Spec => []HeapOrdered
<1>1. IInv => HeapOrdered
  BY DEF IInv, Sound, HeapOrdered
<1> QED BY <1>1, InitFacts, Inductive, PTL DEF Spec

(* A pass that returns success has left no event ready, whatever its       *)
(* instructions and the wakes between them did to the heap.                *)
THEOREM PassesDrain == Spec => PassDrains
<1>1. IInv /\ [Next]_vars => [pc = "pass" /\ pc' = "api" /\ rt'.err = 0
                               => \A i \in 0 .. rt'.size - 1 : rt'.slot[i].when >= pass.now]_vars
  <2> SUFFICES ASSUME IInv, Next, pc = "pass", pc' = "api", rt'.err = 0,
                      NEW i \in 0 .. rt'.size - 1
               PROVE  rt'.slot[i].when >= pass.now
    OBVIOUS
  <2>1. Sound(rt) /\ pass.now \in Nat
    BY DEF IInv, ThreadOK
  <2>2. EndPass
    <3>1. ~ EventOfNobody /\ ~ LinkToNobody
      BY <2>1 DEF EventOfNobody, LinkToNobody, Return, Sound, Runtimes
    <3>2. ~ Api /\ ~ RunReady /\ ~ Tick
      BY DEF Api, CreateProc, KillProc, SuspendProc, ResumeProc, CancelProc, WaitProc, SleepProc,
             DieProc, PeriodProc, Call, RunReady, Tick
    <3>3. ~ WakeSleeper /\ ~ StartEvent /\ ~ CheckMod /\ ~ WakeNext /\ ~ EndStep
      BY DEF WakeSleeper, StartEvent, CheckMod, WakeNext, EndStep
    <3>4. ~ VisitIdle /\ ~ Instruction
      BY DEF VisitIdle, Instruction, StepPlain, StepFork, StepWait, StepSleep, StepEnd, Step
    <3> QED BY <3>1, <3>2, <3>3, <3>4 DEF Next, Advance
  <2>3. rt'.size = rt.size /\ rt'.slot = rt.slot
    BY <2>1, <2>2 DEF EndPass, Return, Sound, Runtimes
  <2>4. Timed(rt) /\ rt.slot[0].when <= rt.slot[i].when
    BY <2>1, <2>3, TimedFacts, TopEarliest
  <2>5. rt.slot[0].when >= pass.now
    <3>1. 0 \in Slot /\ i \in Nat /\ rt.size > 0
      BY <2>3, <2>4, SlotFacts DEF Timed
    <3> QED BY <2>1, <2>2, <2>4, <3>1 DEF EndPass, Ready, Timed
  <2>6. i \in Slot /\ 0 \in Slot
    BY <2>3, <2>4, SlotFacts, CapAssumption DEF Timed, Slot
  <2> QED BY <2>1, <2>3, <2>4, <2>5, <2>6 DEF Timed
<1> QED BY <1>1, InitFacts, Inductive, PTL DEF Spec, PassDrains

(* Events, links and lists may outlive the process they name, but whatever *)
(* pid they hold was handed out before, so that none comes to name a new   *)
(* process.                                                                *)
THEOREM PidsStayOld == Spec => []PidsAreOld
<1>1. IInv => PidsAreOld
  <2> SUFFICES ASSUME IInv PROVE PidsAreOld
    OBVIOUS
  <2>1. Sound(rt) /\ Procs \subseteq Pid /\ rt.next_pid \in Nat
    BY SoundFacts, ProcAssumption DEF IInv, Procs
  <2>2. ASSUME NEW x \in Pid \cup {NullPid}, x < rt.next_pid
        PROVE  x \in {NullPid} \cup 1 .. rt.next_pid - 1
    BY <2>1, <2>2 DEF Pid
  <2>3. ASSUME NEW p \in Procs
        PROVE  {p, rt.procs[p].prev, rt.procs[p].next} \subseteq {NullPid} \cup 1 .. rt.next_pid - 1
    <3>1. /\ rt.procs[p].prev \in Pid \cup {NullPid} /\ rt.procs[p].next \in Pid \cup {NullPid}
          /\ p \in Pid
      BY <2>1, <2>3, SoundFacts DEF Procs, Process
    <3>2. p < rt.next_pid /\ rt.procs[p].prev < rt.next_pid /\ rt.procs[p].next < rt.next_pid
      BY <2>1, <2>3, OldFacts DEF Procs
    <3> QED BY <2>2, <3>1, <3>2
  <2>4. \A i \in 0 .. rt.size - 1 : rt.slot[i].pid < rt.next_pid
    <3>1. \A i \in 0 .. rt.size - 1 : i \in Slot
      BY <2>1, SoundFacts, CapAssumption DEF IsHeap, Slot
    <3> QED BY <2>1, <3>1 DEF Sound, SlotsOld
  <2> QED BY <2>1, <2>3, <2>4 DEF PidsAreOld, Sound, WaitsOld
<1> QED BY <1>1, InitFacts, Inductive, PTL DEF Spec

(***************************************************************************)
(* The states.  Hooking and unhooking leave every state as it is; a call   *)
(* about a process may turn the state of that one.                         *)
(***************************************************************************)
SameStates(s, t) == \A q \in DOMAIN s.procs : t.procs[q].state = s.procs[q].state

Turned(s, t, p, state) ==
    /\ DOMAIN t.procs = DOMAIN s.procs
    /\ \A q \in DOMAIN s.procs \ {p} : t.procs[q].state = s.procs[q].state
    /\ t.procs[p].state \in {s.procs[p].state, state}

(* One process is written to, in other fields than its state.              *)
LEMMA OneWritten ==
    ASSUME NEW s, NEW p \in DOMAIN s.procs, NEW q, q.state = s.procs[p].state,
           NEW t, t.procs = [s.procs EXCEPT ![p] = q]
    PROVE  SameStates(s, t)
BY DEF SameStates

LEMMA SchedStates ==
    ASSUME NEW s, Sound(s), NEW p \in DOMAIN s.procs, clock \in Nat, NEW delta \in Nat,
           ~ s.procs[p].active, s.procs[p].state \in {"RUNNING", "SLEEPING"}
    PROVE  SameStates(s, Sched(s, p, delta))
<1> DEFINE e == [when |-> IF delta = 0 THEN 0 ELSE clock + delta, pid |-> p]
           h == HeapPut(s, e)
<1>1. h.procs = s.procs /\ DOMAIN h = DOMAIN s
  <2>1. HeapPut(s, e) = [s EXCEPT !.slot = h.slot, !.size = h.size, !.head = h.head]
    BY Zenon DEF HeapPut, Bubble, Pushed
  <2> QED BY <2>1 DEF Sound, Runtimes
<1> HIDE DEF h
<1>2. Sched(s, p, delta).procs = [s.procs EXCEPT ![p] = [@ EXCEPT !.active = TRUE, !.prev = NullPid, !.next = NullPid]]
  BY <1>1 DEF Sched, h, Sound, Runtimes
<1> QED BY <1>2, SoundFacts DEF SameStates, Process

LEMMA SuspendStates ==
    ASSUME NEW s, Sound(s), NEW p \in DOMAIN s.procs
    PROVE  SameStates(s, Suspend(s, p))
<1> DEFINE me == s.procs[p]
<1>1. me \in Process /\ s \in Runtimes /\ s.procs \in [DOMAIN s.procs -> Process]
  BY SoundFacts DEF Sound
<1>2. CASE ~ me.active
  BY <1>2, ErrFacts DEF Suspend, Ok, SameStates
<1>3. CASE me.active /\ me.state = "WAITING"
  <2>1. Suspend(s, p) = WaitSuspend(s, p)
    BY <1>3 DEF Suspend
  <2> DEFINE link == [q \in DOMAIN s.procs |->
                        [s.procs[q] EXCEPT
                            !.next = IF q = me.prev THEN me.next ELSE @,
                            !.prev = IF q = me.next THEN me.prev ELSE @]]
             out == [me EXCEPT !.active = FALSE, !.prev = NullPid, !.next = NullPid]
  <2>2. \A q \in DOMAIN s.procs : link[q].state = s.procs[q].state
    BY <1>1 DEF Process
  <2>3. DOMAIN link = DOMAIN s.procs /\ out.state = me.state
    BY <1>1 DEF Process
  <2>4. WaitSuspend(s, p).procs \in {link, [link EXCEPT ![p] = out]}
    BY <1>1 DEF WaitSuspend, Fail, Runtimes
  <2> HIDE DEF link, out
  <2> QED BY <2>1, <2>2, <2>3, <2>4 DEF SameStates
<1>4. CASE me.active /\ me.state = "DEAD"
  <2>1. Suspend(s, p).procs = [s.procs EXCEPT ![p] = [me EXCEPT !.active = FALSE]]
    BY <1>1, <1>4 DEF Suspend, Runtimes
  <2> QED BY <1>1, <2>1 DEF SameStates, Process
<1>5. CASE me.active /\ me.state \in {"RUNNING", "SLEEPING"}
  <2> DEFINE h == HeapDelete(s, s.head[p])
  <2>1. h.procs = s.procs /\ DOMAIN h = DOMAIN s
    <3>1. s.head[p] \in Slot /\ IsHeap(s, Event, DOMAIN s.procs) /\ s.size > 0
      <4>1. p \in Clocked(s)
        BY <1>5 DEF Clocked
      <4>2. s.size = Cardinality(Clocked(s)) /\ s.size \in Nat
        BY SoundFacts DEF Sound, IsHeap
      <4>3. IsFiniteSet(Clocked(s))
        <5>1. IsFiniteSet(Pid)
          BY ProcAssumption, FS_Interval DEF Pid
        <5> QED BY <5>1, SoundFacts, FS_Subset DEF Clocked
      <4>4. s.size # 0
        BY <4>1, <4>2, <4>3, FS_EmptySet
      <4> QED BY <4>2, <4>4, SoundFacts
    <3>2. Alike(s, h, {"slot", "head", "size"})
      BY <3>1, DeleteFacts
    <3> QED BY <1>1, <3>2 DEF Alike, Runtimes
  <2> HIDE DEF h
  <2>2. Desched(s, p).procs = [s.procs EXCEPT ![p].active = FALSE]
    BY <1>1, <2>1 DEF Desched, h, Runtimes
  <2>3. Suspend(s, p) = Desched(s, p)
    BY <1>5 DEF Suspend
  <2> QED BY <1>1, <2>2, <2>3 DEF SameStates, Process
<1> QED BY <1>1, <1>2, <1>3, <1>4, <1>5 DEF Process, States

LEMMA ResumeStates ==
    ASSUME NEW s, Sound(s), NEW p \in DOMAIN s.procs, clock \in Nat
    PROVE  SameStates(s, Resume(s, p))
<1> DEFINE me == s.procs[p]
<1>1. /\ me \in Process /\ s \in Runtimes /\ s.procs \in [DOMAIN s.procs -> Process]
      /\ me.data \in Nat /\ me.period \in Nat
  BY SoundFacts, DataFacts DEF Sound, Process
<1>2. CASE me.active
  BY <1>2, ErrFacts DEF Resume, Ok, SameStates
<1>3. CASE ~ me.active /\ me.state = "WAITING"
  <2>1. WaitResume(s, p).procs = [s.procs EXCEPT ![p] = WaitResume(s, p).procs[p]]
        /\ WaitResume(s, p).procs[p].state = me.state
    BY <1>1 DEF WaitResume, Runtimes, Process
  <2>2. Resume(s, p) = WaitResume(s, p)
    BY <1>3 DEF Resume
  <2> QED BY <1>1, <2>1, <2>2 DEF SameStates
<1>4. CASE ~ me.active /\ me.state = "DEAD"
  <2>1. Resume(s, p).procs = [s.procs EXCEPT ![p] = [me EXCEPT !.active = TRUE]]
    BY <1>1, <1>4 DEF Resume, Runtimes
  <2> QED BY <1>1, <2>1 DEF SameStates, Process
<1>5. CASE ~ me.active /\ me.state = "SLEEPING"
  <2>1. Resume(s, p) = Sched(s, p, me.data)
    BY <1>5 DEF Resume
  <2> QED BY <1>1, <1>5, <2>1, SchedStates
<1>6. CASE ~ me.active /\ me.state = "RUNNING"
  <2>1. Resume(s, p) = Sched(s, p, me.period)
    BY <1>6 DEF Resume
  <2> QED BY <1>1, <1>6, <2>1, SchedStates
<1> QED BY <1>1, <1>2, <1>3, <1>4, <1>5, <1>6 DEF Process, States

LEMMA WrittenTurns ==
    ASSUME NEW s, NEW p \in DOMAIN s.procs, clock \in Nat, NEW state,
           NEW off, Sound(off), Same(s, off), SameStates(s, off),
           NEW q \in Process, Rewritten(off.procs[p], q), q.state = state,
           NEW t, t.procs = [off.procs EXCEPT ![p] = q], t.err \in {0, -1},
           Alike(off, t, {"procs", "err"})
    PROVE  Turned(s, t, p, state) /\ Turned(s, Resume(t, p), p, state)
<1>1. p \in DOMAIN off.procs /\ DOMAIN off.procs = DOMAIN s.procs
  BY DEF Same
<1>2. Sound(t) /\ Same(off, t)
  BY <1>1, SetFacts
<1>3. Turned(s, t, p, state)
  BY <1>1 DEF Turned, SameStates
<1>4. SameStates(t, Resume(t, p)) /\ Same(t, Resume(t, p))
  BY <1>1, <1>2, ResumeStates, ResumeFacts DEF Same
<1>5. Turned(s, Resume(t, p), p, state)
  BY <1>1, <1>2, <1>3, <1>4 DEF Turned, SameStates, Same
<1> QED BY <1>3, <1>5

(* A process is unhooked, its state is set, and it may be hooked again.    *)
LEMMA TurnFacts ==
    ASSUME NEW s, Sound(s), NEW p \in DOMAIN s.procs, clock \in Nat, NEW state \in States,
           NEW off, Sound(off), Same(s, off), SameStates(s, off),
           ~ off.procs[p].active \/ state = s.procs[p].state,
           NEW data \in Data, NEW set,
           set = [off EXCEPT !.procs[p].state = state, !.procs[p].data = data]
    PROVE  Turned(s, off, p, state) /\ Turned(s, set, p, state) /\ Turned(s, Resume(set, p), p, state)
<1> DEFINE q == [off.procs[p] EXCEPT !.state = state, !.data = data]
<1>1. p \in DOMAIN off.procs /\ off.procs[p] \in Process /\ off.procs[p].state = s.procs[p].state
      /\ DOMAIN off.procs = DOMAIN s.procs
  BY SoundFacts DEF Same, SameStates
<1>2. q \in Process /\ Rewritten(off.procs[p], q) /\ q.state = state
  BY <1>1 DEF Process, Rewritten
<1>3. /\ set.procs = [off.procs EXCEPT ![p] = q] /\ set.err \in {0, -1}
      /\ Alike(off, set, {"procs", "err"})
  BY <1>1, SoundFacts DEF Sound, Runtimes, Alike
<1> HIDE DEF q
<1>4. Turned(s, off, p, state)
  BY <1>1 DEF Turned, SameStates
<1>5. PICK r \in Process : r = q
  BY <1>2
<1>6. PICK t : t = set
  OBVIOUS
<1>7. /\ Rewritten(off.procs[p], r) /\ r.state = state
      /\ t.procs = [off.procs EXCEPT ![p] = r] /\ t.err \in {0, -1}
      /\ Alike(off, t, {"procs", "err"})
  BY <1>2, <1>3, <1>5, <1>6
<1>8. Turned(s, t, p, state) /\ Turned(s, Resume(t, p), p, state)
  BY <1>7, WrittenTurns
<1> QED BY <1>4, <1>6, <1>8, Zenon

LEMMA EnterTurns ==
    ASSUME NEW s, Sound(s), NEW p \in DOMAIN s.procs, clock \in Nat,
           NEW state \in States, NEW data \in Data
    PROVE  Turned(s, Enter(s, p, state, data), p, state)
<1> DEFINE off == Suspend(s, p)
           set == [off EXCEPT !.procs[p].state = state, !.procs[p].data = data]
<1>1. Unhooked(s, off, p) /\ SameStates(s, off)
  BY SuspendFacts, SuspendStates
<1>2. Enter(s, p, state, data) = IF off.err # 0 THEN off
                                 ELSE IF s.procs[p].active THEN Resume(set, p) ELSE set
  BY Zenon DEF Enter
<1>3. Sound(off) /\ Same(s, off) /\ (off.err = 0 => ~ off.procs[p].active)
  BY <1>1 DEF Unhooked
<1> HIDE DEF off
<1>4. CASE off.err # 0
  BY <1>1, <1>2, <1>3, <1>4 DEF Turned, Same, SameStates
<1>5. CASE off.err = 0
  <2>1. PICK u : u = set
    OBVIOUS
  <2>2. Turned(s, u, p, state) /\ Turned(s, Resume(u, p), p, state)
    BY <1>1, <1>3, <1>5, <2>1, TurnFacts
  <2>3. Enter(s, p, state, data) = IF s.procs[p].active THEN Resume(u, p) ELSE u
    BY <1>2, <1>5, <2>1, Zenon
  <2> QED BY <2>2, <2>3, Zenon
<1> QED BY <1>4, <1>5

(* What a call may do to the states: nothing that the diagram does not     *)
(* have, unless to a dead process.                                         *)
Drawn(s, t) ==
    \A p \in DOMAIN s.procs \cap DOMAIN t.procs :
        LET x == s.procs[p].state  y == t.procs[p].state
        IN  x # y /\ x # "DEAD" => <<x, y>> \in Diagram

LEMMA TurnedDrawn ==
    ASSUME NEW s, Sound(s), NEW p \in DOMAIN s.procs, NEW state \in States,
           s.procs[p].state \in {"RUNNING", "DEAD", state} \/ state \in {"RUNNING", "DEAD"},
           NEW t, Turned(s, t, p, state)
    PROVE  Drawn(s, t)
<1>1. s.procs[p].state \in States
  BY SoundFacts DEF Process
<1> QED BY <1>1 DEF Turned, Drawn, Diagram, States

LEMMA SameDrawn ==
    ASSUME NEW s, NEW t, SameStates(s, t)
    PROVE  Drawn(s, t)
BY DEF SameStates, Drawn

LEMMA CallsDrawn ==
    ASSUME NEW s, Sound(s), NEW p \in DOMAIN s.procs, clock \in Nat
    PROVE  /\ Drawn(s, Suspend(s, p)) /\ Drawn(s, Resume(s, p)) /\ Drawn(s, Cancel(s, p))
           /\ \A n \in Nodes : Drawn(s, Wait(s, p, n))
           /\ \A d \in Durations : Drawn(s, Sleep(s, p, d))
<1>1. s.procs[p].data \in Data /\ Nodes \subseteq Data /\ Durations \subseteq Data
  BY SoundFacts, DataFacts DEF Process
<1>2. {"RUNNING", "WAITING", "SLEEPING"} \subseteq States
  BY DEF States
<1>3. Drawn(s, Fail(s))
  BY ErrFacts, SameDrawn DEF Fail, SameStates
<1>4. \A state \in {"RUNNING", "WAITING", "SLEEPING"}, data \in Data :
          s.procs[p].state \in {"RUNNING", state} \/ state = "RUNNING"
             => Drawn(s, Enter(s, p, state, data))
  BY <1>2, EnterTurns, TurnedDrawn
<1>5. Drawn(s, Cancel(s, p))
  BY <1>1, <1>3, <1>4 DEF Cancel
<1>6. \A n \in Nodes : Drawn(s, Wait(s, p, n))
  BY <1>1, <1>3, <1>4 DEF Wait
<1>7. \A d \in Durations : Drawn(s, Sleep(s, p, d))
  BY <1>1, <1>3, <1>4 DEF Sleep
<1> QED BY <1>5, <1>6, <1>7, SuspendStates, ResumeStates, SameDrawn

LEMMA DieDrawn ==
    ASSUME NEW s, Sound(s), NEW p \in DOMAIN s.procs, NEW cause \in Causes
    PROVE  Drawn(s, Die(s, p, cause))
<1> DEFINE off == IF s.procs[p].state = "DEAD" THEN Ok(s) ELSE Suspend(s, p)
           q == [off.procs[p] EXCEPT !.state = "DEAD", !.data = cause]
           set == [off EXCEPT !.procs[p].state = "DEAD", !.procs[p].data = cause]
<1>1. Sound(off) /\ Same(s, off) /\ SameStates(s, off)
  BY ErrFacts, SuspendFacts, SuspendStates DEF Ok, Unhooked, SameStates
<1>2. Die(s, p, cause) = IF off.err # 0 THEN off ELSE set
  BY Zenon DEF Die
<1> HIDE DEF off
<1>3. set.procs = [off.procs EXCEPT ![p] = q]
  BY <1>1 DEF Sound, Runtimes
<1>4. q.state = "DEAD" /\ DOMAIN off.procs = DOMAIN s.procs
  BY <1>1, SoundFacts DEF Process, Same
<1> HIDE DEF q, set
<1>5. Turned(s, set, p, "DEAD")
  BY <1>1, <1>3, <1>4 DEF Turned, SameStates
<1>6. Drawn(s, set) /\ Drawn(s, off)
  BY <1>1, <1>5, TurnedDrawn, SameDrawn DEF States
<1> QED BY <1>2, <1>6, Zenon

LEMMA SetPeriodDrawn ==
    ASSUME NEW s, Sound(s), NEW p \in DOMAIN s.procs, clock \in Nat, NEW d \in Durations
    PROVE  Drawn(s, SetPeriod(s, p, d))
<1> DEFINE running == s.procs[p].state = "RUNNING" /\ s.procs[p].active
           off == IF running THEN Suspend(s, p) ELSE Ok(s)
           set == [off EXCEPT !.procs[p].data = d]
<1>1. Sound(off) /\ Same(s, off) /\ SameStates(s, off)
  BY ErrFacts, SuspendFacts, SuspendStates DEF Ok, Unhooked, SameStates
<1>2. SetPeriod(s, p, d) \in {off, set, Resume(set, p)}
  BY Zenon DEF SetPeriod
<1> HIDE DEF off
<1>3. p \in DOMAIN off.procs /\ off.procs[p] \in Process /\ off \in Runtimes
      /\ off.procs[p].state = s.procs[p].state /\ s.procs[p].state \in States
  BY <1>1, SoundFacts DEF Same, SameStates, Sound, Process
<1>4. PICK state \in States : state = off.procs[p].state
  BY <1>3
<1>5. set = [off EXCEPT !.procs[p].state = state, !.procs[p].data = d]
  <2>1. [off.procs[p] EXCEPT !.data = d] = [off.procs[p] EXCEPT !.state = state, !.data = d]
    BY <1>3, <1>4 DEF Process
  <2> QED BY <1>3, <2>1 DEF Runtimes
<1>6. d \in Data
  BY DataFacts
<1> HIDE DEF set
<1>7. Turned(s, off, p, state) /\ Turned(s, set, p, state) /\ Turned(s, Resume(set, p), p, state)
  BY <1>1, <1>3, <1>4, <1>5, <1>6, TurnFacts
<1> QED BY <1>2, <1>3, <1>4, <1>7, TurnedDrawn

LEMMA WakeDrawn ==
    ASSUME NEW s, Sound(s), NEW p \in DOMAIN s.procs, clock \in Nat
    PROVE  Drawn(s, Wake(s, p))
<1> DEFINE off == Suspend(s, p)
           set == [off EXCEPT !.procs[p].state = "RUNNING"]
<1>1. Unhooked(s, off, p) /\ SameStates(s, off)
  BY SuspendFacts, SuspendStates
<1>2. Wake(s, p) = IF off.err # 0 THEN off ELSE Resume(set, p)
  BY Zenon DEF Wake
<1>3. Sound(off) /\ Same(s, off) /\ (off.err = 0 => ~ off.procs[p].active)
  BY <1>1 DEF Unhooked
<1> HIDE DEF off
<1>4. CASE off.err # 0
  BY <1>1, <1>2, <1>4, SameDrawn
<1>5. CASE off.err = 0
  <2>1. p \in DOMAIN off.procs /\ off.procs[p] \in Process /\ off \in Runtimes /\ "RUNNING" \in States
    BY <1>3, SoundFacts DEF Same, Sound, States
  <2>2. PICK data \in Data : data = off.procs[p].data
    BY <2>1 DEF Process
  <2>3. set = [off EXCEPT !.procs[p].state = "RUNNING", !.procs[p].data = data]
    <3>1. [off.procs[p] EXCEPT !.state = "RUNNING"]
            = [off.procs[p] EXCEPT !.state = "RUNNING", !.data = data]
      BY <2>1, <2>2 DEF Process
    <3> QED BY <2>1, <3>1 DEF Runtimes
  <2> HIDE DEF set
  <2>4. Turned(s, Resume(set, p), p, "RUNNING")
    BY <1>1, <1>3, <1>5, <2>1, <2>2, <2>3, TurnFacts
  <2> QED BY <1>2, <1>5, <2>1, <2>4, TurnedDrawn
<1> QED BY <1>4, <1>5

LEMMA InitKillDrawn ==
    ASSUME NEW s, Sound(s)
    PROVE  /\ s.next_pid \in Pid => \A d \in Durations :
                 /\ SameStates(s, ProcInit(s, d)) /\ DOMAIN s.procs \subseteq DOMAIN ProcInit(s, d).procs
           /\ \A p \in DOMAIN s.procs : Drawn(s, ProcKill(s, p))
<1>1. s \in Runtimes /\ \A p \in DOMAIN s.procs : p # s.next_pid
  BY SoundFacts DEF Sound, Pid
<1>2. ASSUME NEW d \in Durations
      PROVE  /\ DOMAIN ProcInit(s, d).procs = DOMAIN s.procs \cup {s.next_pid}
             /\ \A q \in DOMAIN s.procs : ProcInit(s, d).procs[q] = s.procs[q]
  BY <1>1 DEF ProcInit, Runtimes
<1>3. ASSUME NEW p \in DOMAIN s.procs
      PROVE  Drawn(s, ProcKill(s, p))
  <2> DEFINE off == Suspend(s, p)
  <2>1. Sound(off) /\ Same(s, off) /\ SameStates(s, off)
    BY SuspendFacts, SuspendStates DEF Unhooked
  <2>2. ProcKill(s, p) = IF off.err # 0 THEN off ELSE Removed(off, p)
    BY Zenon DEF ProcKill
  <2> HIDE DEF off
  <2>3. /\ DOMAIN Removed(off, p).procs = DOMAIN s.procs \ {p}
        /\ \A q \in DOMAIN s.procs \ {p} : Removed(off, p).procs[q] = off.procs[q]
    BY <2>1 DEF Sound, Runtimes, Same, Removed
  <2>4. Drawn(s, Removed(off, p))
    BY <2>1, <2>3 DEF Drawn, SameStates
  <2>5. Drawn(s, off)
    BY <2>1, SameDrawn
  <2> QED BY <2>2, <2>4, <2>5, Zenon
<1> QED BY <1>2, <1>3 DEF SameStates

(* Moving an event within the heap is no matter of the processes.          *)
LEMMA StartKeepsProcs == Sound(rt) /\ StartEvent => rt'.procs = rt.procs
<1> SUFFICES ASSUME Sound(rt), StartEvent PROVE rt'.procs = rt.procs
  OBVIOUS
<1> DEFINE h == [rt EXCEPT !.slot[0].when = @ + OnePeriod(rt.slot[0].pid)]
<1>1. h.procs = rt.procs /\ DOMAIN h = DOMAIN rt /\ "procs" \in DOMAIN rt
  BY DEF Sound, Runtimes
<1>2. rt' = Readjust(h, 0)
  BY DEF StartEvent
<1> HIDE DEF h
<1>3. ASSUME NEW g, NEW i, "procs" \in DOMAIN g
      PROVE  /\ Bubble(g, i).procs = g.procs /\ DOMAIN Bubble(g, i) = DOMAIN g
             /\ Sink(g, i).procs = g.procs
  BY <1>3 DEF Bubble, Sink
<1> QED BY <1>1, <1>2, <1>3 DEF Readjust

LEMMA StepsDrawn == IInv /\ [Next]_vars => Drawn(rt, rt')
<1> SUFFICES ASSUME IInv, [Next]_vars PROVE Drawn(rt, rt')
  OBVIOUS
<1>1. Sound(rt) /\ clock \in Nat
  BY DEF IInv, ThreadOK
<1>2. rt'.procs = rt.procs => Drawn(rt, rt')
  BY DEF Drawn
<1>3. \A t : Sound(t) => Ok(t).procs = t.procs
  BY DEF Ok, Sound, Runtimes
<1>4. \A t : rt' = Ok(t) /\ Sound(t) /\ Drawn(rt, t) => Drawn(rt, rt')
  BY <1>3 DEF Drawn
<1>5. ASSUME NEW d \in Durations, CreateProc(d) PROVE Drawn(rt, rt')
  BY <1>1, <1>5, InitKillDrawn, SameDrawn DEF CreateProc, RoomForProc, Call
<1>6. ASSUME NEW p \in Procs,
             \/ KillProc(p) \/ SuspendProc(p) \/ ResumeProc(p) \/ CancelProc(p) \/ DieProc(p)
             \/ \E n \in Nodes : WaitProc(p, n)
             \/ \E d \in Durations : SleepProc(p, d) \/ PeriodProc(p, d)
      PROVE  Drawn(rt, rt')
  <2>1. Killed \in Causes
    BY DEF Killed, Causes
  <2>2. CASE KillProc(p) \/ SuspendProc(p) \/ ResumeProc(p) \/ CancelProc(p) \/ DieProc(p)
    BY <1>1, <2>1, <2>2, InitKillDrawn, CallsDrawn, DieDrawn
       DEF KillProc, SuspendProc, ResumeProc, CancelProc, DieProc, Call, Procs
  <2>3. CASE \E n \in Nodes : WaitProc(p, n)
    BY <1>1, <2>3, CallsDrawn DEF WaitProc, Call, Procs
  <2>4. CASE \E d \in Durations : SleepProc(p, d) \/ PeriodProc(p, d)
    BY <1>1, <2>4, CallsDrawn, SetPeriodDrawn DEF SleepProc, PeriodProc, Call, Procs
  <2> QED BY <1>6, <2>2, <2>3, <2>4
<1>7. CASE RunReady \/ Tick \/ UNCHANGED vars
  BY <1>1, <1>2, <1>3, <1>7 DEF RunReady, Tick, vars
<1>8. CASE EndPass \/ EventOfNobody \/ LinkToNobody \/ VisitIdle \/ CheckMod
  BY <1>1, <1>2, <1>8
     DEF EndPass, EventOfNobody, LinkToNobody, Return, VisitIdle, CheckMod, Sound, Runtimes
<1>9. CASE WakeSleeper
  BY <1>1, <1>9, CallsDrawn DEF WakeSleeper, Procs
<1>10. CASE StartEvent
  <2>1. rt'.procs = rt.procs
    BY <1>1, <1>10, StartKeepsProcs
  <2> QED BY <1>2, <2>1
<1>11. CASE Instruction
  <2>1. PICK mods \in Mods : \/ StepPlain(mods) \/ StepFork(mods)
                             \/ \E n \in Nodes : StepWait(n, mods)
                             \/ \E d \in Durations : StepSleep(d, mods)
                             \/ \E c \in Ends : StepEnd(c, mods)
    BY <1>11 DEF Instruction
  <2>2. run.cur \in Procs
    BY <2>1 DEF StepPlain, StepFork, StepWait, StepSleep, StepEnd, Step, Runnable
  <2>3. CASE StepPlain(mods) \/ \E c \in Ends : StepEnd(c, mods)
    BY <1>1, <1>2, <1>3, <2>3 DEF StepPlain, StepEnd, Step
  <2>4. CASE StepFork(mods)
    <3> DEFINE d == rt.procs[run.cur].period
               s == ProcInit(rt, d)
               t == Resume(s, rt.next_pid)
    <3>1. rt.next_pid \in Pid /\ rt' = Ok(t)
      BY <2>4 DEF StepFork, RoomForProc, Step
    <3>2. d \in Durations
      BY <1>1, <2>2, SoundFacts DEF Procs, Process
    <3> HIDE DEF d
    <3>3. Sound(s) /\ DOMAIN s.procs = Procs \cup {rt.next_pid} /\ SameStates(rt, s)
      BY <1>1, <3>1, <3>2, ProcInitFacts, InitKillDrawn DEF Procs
    <3> HIDE DEF s
    <3>4. Sound(t) /\ SameStates(s, t)
      BY <1>1, <3>3, ResumeFacts, ResumeStates
    <3>5. SameStates(rt, t)
      BY <3>3, <3>4 DEF SameStates, Procs
    <3> HIDE DEF t
    <3> QED BY <1>4, <3>1, <3>4, <3>5, SameDrawn
  <2>5. ASSUME NEW n \in Nodes, StepWait(n, mods) PROVE Drawn(rt, rt')
    <3>1. PICK t : t = Wait(rt, run.cur, n) /\ rt' = Ok(t)
      BY <2>5 DEF StepWait, Step
    <3>2. Sound(t) /\ Drawn(rt, t)
      BY <1>1, <2>2, <3>1, CallFacts, CallsDrawn DEF Procs
    <3> QED BY <1>4, <3>1, <3>2
  <2>6. ASSUME NEW d \in Durations, StepSleep(d, mods) PROVE Drawn(rt, rt')
    <3>1. PICK t : t = Sleep(rt, run.cur, d) /\ rt' = Ok(t)
      BY <2>6 DEF StepSleep, Step
    <3>2. Sound(t) /\ Drawn(rt, t)
      BY <1>1, <2>2, <3>1, CallFacts, CallsDrawn DEF Procs
    <3> QED BY <1>4, <3>1, <3>2
  <2> QED BY <2>1, <2>3, <2>4, <2>5, <2>6
<1>12. CASE WakeNext
  <2>1. CASE run.wake \in Procs
    <3>1. PICK t : t = Wake(rt, run.wake) /\ rt' = Ok(t)
      BY <1>12, <2>1 DEF WakeNext
    <3>2. Sound(t) /\ Drawn(rt, t)
      BY <1>1, <2>1, <3>1, WakeFacts, WakeDrawn DEF Procs
    <3> QED BY <1>4, <3>1, <3>2
  <2>2. CASE run.wake \notin Procs
    BY <1>2, <1>12, <2>2 DEF WakeNext
  <2> QED BY <2>1, <2>2
<1>13. CASE EndStep
  <2>1. run.cur \in Procs /\ run.reason \in Causes
    BY <1>13 DEF EndStep, IInv, ThreadOK, Locals
  <2>2. CASE run.reason = NoCause
    BY <1>2, <1>13, <2>2 DEF EndStep
  <2>3. CASE run.reason # NoCause
    <3>1. PICK t : t = Die(rt, run.cur, run.reason) /\ rt' = Ok(t)
      BY <1>13, <2>3 DEF EndStep
    <3>2. Sound(t) /\ Drawn(rt, t)
      BY <1>1, <2>1, <3>1, DieFacts, DieDrawn DEF Procs
    <3> QED BY <1>4, <3>1, <3>2
  <2> QED BY <2>2, <2>3
<1> QED BY <1>5, <1>6, <1>7, <1>8, <1>9, <1>10, <1>11, <1>12, <1>13 DEF Next, Api, Advance

(* A living process is turned along the diagram of proc.h only: to waiting *)
(* or sleeping from running, from there to running or death, whoever acts. *)
THEOREM StatesFollowDiagram == Spec => StateDiagram
<1>1. IInv /\ [Next]_vars =>
        [\A p \in Procs \cap DOMAIN rt'.procs :
           LET s == rt.procs[p].state  t == rt'.procs[p].state
           IN  s # t /\ s # "DEAD" => <<s, t>> \in Diagram]_vars
  BY StepsDrawn DEF Drawn, Procs
<1> QED BY <1>1, InitFacts, Inductive, PTL DEF Spec, StateDiagram

(***************************************************************************)
(* The arithmetic of ndltime.c, for every time and every unit: it is       *)
(* exact, though it writes some instants in two ways.  And what rests on   *)
(* it: run_for does not give up early, whatever its timeouts, the          *)
(* processes and the clock.  An event may be left behind only when the     *)
(* caller's time is up; of the passes the proof needs no more than that    *)
(* they leave the loop alone.  And run_for sleeps through no event: that   *)
(* rests also on the order of the clock heap, of which it looks at the top *)
(* only.                                                                   *)
(***************************************************************************)
LEMMA Units == Giga \in Nat /\ Giga > 0 /\ Giga = Mega * Kilo
BY NdlTimeAssumption, SMT DEF Giga

(* Multiplication, spelt out where the prover needs it.                    *)
LEMMA Distributes ==
    ASSUME NEW x \in Int, NEW y \in Int, NEW g \in Int
    PROVE  /\ (x + y) * g = x * g + y * g
           /\ (x - y) * g = x * g - y * g
           /\ (x + y + 1) * g = x * g + y * g + g
           /\ (x - y - 1) * g = x * g - y * g - g
BY SMT

LEMMA TimeFields ==
    ASSUME NEW t \in Time
    PROVE  t.sec \in Int /\ t.nsec \in Int /\ 0 <= t.nsec /\ t.nsec <= Giga
BY Units DEF Time

LEMMA AtTime ==
    ASSUME NEW s \in Int, NEW n \in Int, 0 <= n, n <= Giga
    PROVE  At(s, n) \in Time /\ Value(At(s, n)) = s * Giga + n
BY Units DEF At, Time, Value

(* ndltime.h: "Resulting .tv_nsec is always positive."  The sum of two     *)
(* times the program can hold is such a time again, and it is the sum: no  *)
(* carry is lost and nothing drifts, however often a period is added.      *)
THEOREM AddIsExact ==
    ASSUME NEW a \in Time, NEW b \in Time
    PROVE  TimeAdd(a, b) \in Time /\ Value(TimeAdd(a, b)) = Value(a) + Value(b)
<1>1. /\ a.sec \in Int /\ a.nsec \in Int /\ 0 <= a.nsec /\ a.nsec <= Giga
      /\ b.sec \in Int /\ b.nsec \in Int /\ 0 <= b.nsec /\ b.nsec <= Giga
  BY TimeFields
<1>2. /\ (a.sec + b.sec) * Giga = a.sec * Giga + b.sec * Giga
      /\ (a.sec + b.sec + 1) * Giga = a.sec * Giga + b.sec * Giga + Giga
  BY <1>1, Units, Distributes
<1>3. /\ a.sec * Giga \in Int /\ b.sec * Giga \in Int /\ Giga \in Int
      /\ Value(a) = a.sec * Giga + a.nsec /\ Value(b) = b.sec * Giga + b.nsec
  BY <1>1, Units DEF Value
<1>4. CASE a.nsec + b.nsec > Giga
  <2> DEFINE s == a.sec + b.sec + 1
             n == a.nsec + b.nsec - Giga
  <2>1. TimeAdd(a, b) = At(s, n)
    BY <1>4 DEF TimeAdd
  <2>2. s \in Int /\ n \in Int /\ 0 <= n /\ n <= Giga
    BY <1>1, <1>4, Units
  <2> HIDE DEF s, n
  <2>3. TimeAdd(a, b) \in Time /\ Value(TimeAdd(a, b)) = s * Giga + n
    BY <2>1, <2>2, AtTime
  <2> QED BY <1>1, <1>2, <1>3, <2>3 DEF s, n
<1>5. CASE ~ a.nsec + b.nsec > Giga
  <2> DEFINE s == a.sec + b.sec
             n == a.nsec + b.nsec
  <2>1. TimeAdd(a, b) = At(s, n)
    BY <1>5 DEF TimeAdd
  <2>2. s \in Int /\ n \in Int /\ 0 <= n /\ n <= Giga
    BY <1>1, <1>5, Units
  <2> HIDE DEF s, n
  <2>3. TimeAdd(a, b) \in Time /\ Value(TimeAdd(a, b)) = s * Giga + n
    BY <2>1, <2>2, AtTime
  <2> QED BY <1>1, <1>2, <1>3, <2>3 DEF s, n
<1> QED BY <1>4, <1>5

(* The same of the difference.                                             *)
THEOREM SubIsExact ==
    ASSUME NEW a \in Time, NEW b \in Time
    PROVE  TimeSub(a, b) \in Time /\ Value(TimeSub(a, b)) = Value(a) - Value(b)
<1>1. /\ a.sec \in Int /\ a.nsec \in Int /\ 0 <= a.nsec /\ a.nsec <= Giga
      /\ b.sec \in Int /\ b.nsec \in Int /\ 0 <= b.nsec /\ b.nsec <= Giga
  BY TimeFields
<1>2. /\ (a.sec - b.sec) * Giga = a.sec * Giga - b.sec * Giga
      /\ (a.sec - b.sec - 1) * Giga = a.sec * Giga - b.sec * Giga - Giga
  BY <1>1, Units, Distributes
<1>3. /\ a.sec * Giga \in Int /\ b.sec * Giga \in Int /\ Giga \in Int
      /\ Value(a) = a.sec * Giga + a.nsec /\ Value(b) = b.sec * Giga + b.nsec
  BY <1>1, Units DEF Value
<1>4. CASE a.nsec - b.nsec < 0
  <2> DEFINE s == a.sec - b.sec - 1
             n == a.nsec - b.nsec + Giga
  <2>1. TimeSub(a, b) = At(s, n)
    BY <1>4 DEF TimeSub
  <2>2. s \in Int /\ n \in Int /\ 0 <= n /\ n <= Giga
    BY <1>1, <1>4, Units
  <2> HIDE DEF s, n
  <2>3. TimeSub(a, b) \in Time /\ Value(TimeSub(a, b)) = s * Giga + n
    BY <2>1, <2>2, AtTime
  <2> QED BY <1>1, <1>2, <1>3, <2>3 DEF s, n
<1>5. CASE ~ a.nsec - b.nsec < 0
  <2> DEFINE s == a.sec - b.sec
             n == a.nsec - b.nsec
  <2>1. TimeSub(a, b) = At(s, n)
    BY <1>5 DEF TimeSub
  <2>2. s \in Int /\ n \in Int /\ 0 <= n /\ n <= Giga
    BY <1>1, <1>5, Units
  <2> HIDE DEF s, n
  <2>3. TimeSub(a, b) \in Time /\ Value(TimeSub(a, b)) = s * Giga + n
    BY <2>1, <2>2, AtTime
  <2> QED BY <1>1, <1>2, <1>3, <2>3 DEF s, n
<1> QED BY <1>4, <1>5

(* A whole second more is at least Giga nanoseconds more.                  *)
LEMMA SecondsApart ==
    ASSUME NEW x \in Int, NEW y \in Int, x < y
    PROVE  x * Giga + Giga <= y * Giga
<1>1. PICK d \in Nat : y = x + 1 + d
  <2>1. y - x - 1 \in Nat /\ y = x + 1 + (y - x - 1)
    OBVIOUS
  <2> QED BY <2>1
<1>2. (x + 1 + d) * Giga = x * Giga + Giga + d * Giga
  BY Units, SMT
<1>3. d * Giga \in Nat /\ x * Giga \in Int
  BY Units, SMT
<1> QED BY <1>1, <1>2, <1>3, Units

(* The order agrees with time, but for the instants written in two ways:   *)
(* an earlier time is always found earlier, and one found earlier is never *)
(* later.  So a heap ordered by it serves no event before an earlier one.  *)
THEOREM CmpIsOrder ==
    ASSUME NEW a \in Time, NEW b \in Time
    PROVE  /\ Value(a) < Value(b) => TimeCmp(a, b) = -1
           /\ TimeCmp(a, b) = -1 => Value(a) <= Value(b)
           /\ TimeCmp(a, b) = 0 <=> a = b
<1>1. /\ a.sec \in Int /\ a.nsec \in Int /\ 0 <= a.nsec /\ a.nsec <= Giga
      /\ b.sec \in Int /\ b.nsec \in Int /\ 0 <= b.nsec /\ b.nsec <= Giga
  BY TimeFields
<1>2. /\ a.sec * Giga \in Int /\ b.sec * Giga \in Int /\ Giga \in Int
      /\ Value(a) = a.sec * Giga + a.nsec /\ Value(b) = b.sec * Giga + b.nsec
  BY <1>1, Units DEF Value
<1>3. a.sec = b.sec /\ a.nsec = b.nsec => a = b
  BY DEF Time
<1>4. CASE a.sec < b.sec
  <2>1. a.sec * Giga + Giga <= b.sec * Giga
    BY <1>1, <1>4, SecondsApart
  <2>2. TimeCmp(a, b) = -1
    BY <1>1, <1>4 DEF TimeCmp
  <2> QED BY <1>1, <1>2, <1>4, <2>1, <2>2
<1>5. CASE b.sec < a.sec
  <2>1. b.sec * Giga + Giga <= a.sec * Giga
    BY <1>1, <1>5, SecondsApart
  <2>2. TimeCmp(a, b) = 1
    BY <1>1, <1>5 DEF TimeCmp
  <2> QED BY <1>1, <1>2, <1>5, <2>1, <2>2
<1>6. CASE a.sec = b.sec
  BY <1>1, <1>2, <1>3, <1>6 DEF TimeCmp
<1> QED BY <1>1, <1>4, <1>5, <1>6

(* The test that ends run_for, and the one that makes an event ready, look *)
(* at the sign of a difference: they find it negative only if the time is  *)
(* up, and always if it is past.                                           *)
THEOREM PastIsNegative ==
    ASSUME NEW a \in Time, NEW b \in Time
    PROVE  /\ TimeSub(a, b).sec < 0 => Value(a) <= Value(b)
           /\ Value(a) < Value(b) => TimeSub(a, b).sec < 0
           /\ TimeSub(a, b).sec < 0 <=> TimeCmp(TimeSub(a, b), TimeZero) = -1
<1> DEFINE d == TimeSub(a, b)
<1>1. d \in Time /\ Value(d) = Value(a) - Value(b)
  BY SubIsExact
<1>2. d.sec \in Int /\ d.nsec \in Int /\ 0 <= d.nsec /\ d.nsec <= Giga
  BY <1>1, TimeFields
<1>3. Value(a) \in Int /\ Value(b) \in Int
  BY TimeFields, Units DEF Value
<1>4. Value(d) = d.sec * Giga + d.nsec /\ d.sec * Giga \in Int
  BY <1>2, Units DEF Value
<1> HIDE DEF d
<1>5. d.sec < 0 => d.sec * Giga + Giga <= 0
  <2>1. 0 * Giga = 0
    BY Units
  <2> QED BY <1>2, <2>1, SecondsApart
<1>6. d.sec >= 0 => d.sec * Giga >= 0
  BY <1>2, Units, SMT
<1>7. d.sec < 0 <=> TimeCmp(d, TimeZero) = -1
  BY <1>2 DEF TimeCmp, TimeZero, At
<1> QED BY <1>1, <1>2, <1>3, <1>4, <1>5, <1>6, <1>7, Units DEF d

(* Division of naturals, as the prover needs it.                           *)
LEMMA Division ==
    ASSUME NEW n \in Nat, NEW d \in Nat, d > 0
    PROVE  /\ n \div d \in Nat
           /\ d * (n \div d) <= n
           /\ n < d * (n \div d) + d
BY SMT

LEMMA ProductDivided ==
    ASSUME NEW r \in Nat, NEW k \in Nat, k > 0
    PROVE  (r * k) \div k = r
<1> DEFINE q == (r * k) \div k
<1>1. r * k \in Nat
  BY SMT
<1>2. q \in Nat /\ k * q <= r * k /\ r * k < k * q + k
  BY <1>1, Division
<1> HIDE DEF q
<1>3. k * q = q * k /\ k * q + k = (q + 1) * k
  BY <1>2, SMT
<1>4. ASSUME q > r PROVE FALSE
  <2>1. PICK e \in Nat : q = r + 1 + e
    <3>1. q - r - 1 \in Nat /\ q = r + 1 + (q - r - 1)
      BY <1>2, <1>4
    <3> QED BY <3>1
  <2>2. (r + 1 + e) * k = r * k + k + e * k /\ e * k \in Nat
    BY SMT
  <2> QED BY <1>1, <1>2, <1>3, <2>1, <2>2
<1>5. ASSUME q < r PROVE FALSE
  <2>1. PICK e \in Nat : r = q + 1 + e
    <3>1. r - q - 1 \in Nat /\ r = q + 1 + (r - q - 1)
      BY <1>2, <1>5
    <3> QED BY <3>1
  <2>2. (q + 1 + e) * k = (q + 1) * k + e * k /\ e * k \in Nat
    BY <1>2, SMT
  <2> QED BY <1>1, <1>2, <1>3, <2>1, <2>2
<1>6. q = r
  BY <1>2, <1>4, <1>5
<1> QED BY <1>6 DEF q

(* C's quotient and remainder.                                             *)
LEMMA QuotRem ==
    ASSUME NEW n \in Int, NEW d \in Nat, d > 0
    PROVE  /\ Quot(n, d) \in Int /\ Rem(n, d) \in Int
           /\ n = Quot(n, d) * d + Rem(n, d)
           /\ n >= 0 => 0 <= Rem(n, d) /\ Rem(n, d) < d
           /\ n < 0 => -d < Rem(n, d) /\ Rem(n, d) <= 0
<1>1. CASE n >= 0
  <2> DEFINE q == n \div d
  <2>1. q \in Nat /\ d * q <= n /\ n < d * q + d
    BY <1>1, Division
  <2>2. Quot(n, d) = q /\ Rem(n, d) = n - d * q
    BY <1>1 DEF Quot, Rem
  <2> HIDE DEF q
  <2>3. d * q = q * d /\ d * q \in Int
    BY <2>1, SMT
  <2> QED BY <1>1, <2>1, <2>2, <2>3
<1>2. CASE n < 0
  <2> DEFINE q == (-n) \div d
  <2>1. q \in Nat /\ d * q <= -n /\ -n < d * q + d
    BY <1>2, Division
  <2>2. Quot(n, d) = -q /\ Rem(n, d) = n - d * (-q)
    BY <1>2 DEF Quot, Rem
  <2> HIDE DEF q
  <2>3. d * (-q) = (-q) * d /\ d * (-q) = -(d * q) /\ d * q \in Int
    BY <2>1, SMT
  <2> QED BY <1>2, <2>1, <2>2, <2>3
<1> QED BY <1>1, <1>2

(* The conversion from microseconds loses nothing, of negative durations   *)
(* either (SLEEP passes on what the program gives it): it is the duration, *)
(* written as the system does, and the way back gives it again.            *)
THEOREM UsecIsExact ==
    ASSUME NEW d \in Int
    PROVE  /\ FromUsec(d) \in Time
           /\ FromUsec(d).nsec < Giga
           /\ Value(FromUsec(d)) = d * Kilo
           /\ ToUsec(FromUsec(d)) = d
<1> DEFINE q == Quot(d, Mega)
           r == Rem(d, Mega)
<1>1. /\ q \in Int /\ r \in Int /\ d = q * Mega + r /\ -Mega < r /\ r < Mega
  BY QuotRem, NdlTimeAssumption
<1>2. FromUsec(d) = IF r * Kilo < 0 THEN At(q - 1, r * Kilo + Giga) ELSE At(q, r * Kilo)
  BY DEF FromUsec
<1> HIDE DEF q, r
<1>3. /\ Kilo \in Nat /\ Kilo > 0 /\ Mega \in Nat /\ Mega > 0 /\ Giga = Mega * Kilo /\ Giga \in Nat
  BY NdlTimeAssumption, Units
(* In either case the fields are s and u * Kilo.                           *)
<1>4. \E s \in Int, u \in Nat : u < Mega /\ d = s * Mega + u /\ FromUsec(d) = At(s, u * Kilo)
  <2>1. CASE r < 0
    <3>1. r * Kilo < 0 /\ r * Kilo + Giga = (r + Mega) * Kilo
      BY <1>1, <1>3, <2>1, SMT
    <3>2. (q - 1) * Mega = q * Mega - Mega
      BY <1>1, <1>3, SMT
    <3>3. r + Mega \in Nat /\ r + Mega < Mega /\ q - 1 \in Int /\ q * Mega \in Int
      BY <1>1, <1>3, <2>1
    <3>4. d = (q - 1) * Mega + (r + Mega)
      BY <1>1, <1>3, <3>2, <3>3
    <3> QED BY <1>2, <3>1, <3>3, <3>4
  <2>2. CASE r >= 0
    <3>1. ~ r * Kilo < 0
      BY <1>1, <1>3, <2>2, SMT
    <3> QED BY <1>1, <1>2, <2>2, <3>1
  <2> QED BY <1>1, <2>1, <2>2
<1>5. PICK s \in Int, u \in Nat : u < Mega /\ d = s * Mega + u /\ FromUsec(d) = At(s, u * Kilo)
  BY <1>4
<1>6. u * Kilo \in Nat /\ u * Kilo < Giga
  BY <1>3, <1>5, SMT
<1>7. FromUsec(d) \in Time /\ Value(FromUsec(d)) = s * Giga + u * Kilo
  BY <1>3, <1>5, <1>6, AtTime
<1>8. s * Giga + u * Kilo = (s * Mega + u) * Kilo
  BY <1>3, <1>5, SMT
<1>9. FromUsec(d).sec = s /\ FromUsec(d).nsec = u * Kilo
  BY <1>5 DEF At
<1>10. Quot(u * Kilo, Kilo) = u
  BY <1>3, <1>6, ProductDivided DEF Quot
<1> QED BY <1>5, <1>6, <1>7, <1>8, <1>9, <1>10 DEF ToUsec

-----------------------------------------------------------------------------
(* The loop of run_for.                                                    *)

(* What the loop knows of the time its caller gave it.                     *)
Awaited(l) == \/ l.due = Never /\ l.until = Forever
              \/ l.due \in Nat /\ l.until \in Time /\ Value(l.until) = l.due

(* The inductive invariant: the deadline is the one asked for, and the     *)
(* loop is never ahead of the clock, which stays before Forever.           *)
ForInv == /\ clock \in 0 .. MaxClock
          /\ loop.at # "off" => Awaited(loop)
          /\ loop.at = "nap" => /\ loop.curr \in Time
                                /\ 0 <= Value(loop.curr) /\ Value(loop.curr) <= clock
          /\ DOMAIN loop = {"at", "until", "curr", "wake", "due"}

LEMMA ReadingFacts ==
    ASSUME NEW v \in Nat
    PROVE  Reading(v) \in Time /\ Value(Reading(v)) = v
<1> DEFINE q == v \div Giga
           r == v % Giga
<1>1. /\ q \in Int /\ r \in Int /\ 0 <= r /\ r <= Giga /\ v = Giga * q + r
  BY Units, SMT
<1>2. Reading(v) = At(q, r)
  BY DEF Reading
<1> HIDE DEF q, r
<1>3. Giga * q = q * Giga
  BY <1>1, Units, SMT
<1> QED BY <1>1, <1>2, <1>3, AtTime

LEMMA ForeverFacts ==
    Forever \in Time /\ \A c \in 0 .. MaxClock : Value(Forever) > c
<1> DEFINE s == 2 * MaxClock + 2
<1>1. s \in Int /\ \A c \in 0 .. MaxClock : s > c
  BY RuntimeAssumption
<1>2. Forever = At(s, 0) /\ 0 \in Int /\ 0 <= 0 /\ 0 <= Giga
  BY Units DEF Forever
<1> HIDE DEF s
<1>3. Forever \in Time /\ Value(Forever) = s * Giga + 0
  BY <1>1, <1>2, AtTime
<1>4. \A c \in 0 .. MaxClock : s * Giga > c
  <2> SUFFICES ASSUME NEW c \in 0 .. MaxClock PROVE s * Giga > c
    OBVIOUS
  <2>1. s \in Nat /\ s > c /\ s >= 1
    BY <1>1
  <2>2. s * Giga >= s
    BY <2>1, Units, SMT
  <2>3. s * Giga \in Int
    BY <1>1, Units, SMT
  <2> QED BY <2>1, <2>2, <2>3
<1> QED BY <1>1, <1>3, <1>4, Units

LEMMA AwaitedTime ==
    ASSUME NEW l, Awaited(l) PROVE l.until \in Time
BY ForeverFacts DEF Awaited

(* Time found to be up is up.                                              *)
LEMMA TimeIsUp ==
    ASSUME clock \in 0 .. MaxClock, NEW l, Awaited(l), NEW t \in Time,
           Value(t) <= clock, TimeSub(l.until, t).sec < 0
    PROVE  l.due # Never /\ clock >= l.due
<1>1. l.until \in Time
  BY AwaitedTime
<1>2. Value(l.until) <= Value(t)
  BY <1>1, PastIsNegative
<1>3. Value(t) \in Int /\ Value(l.until) \in Int
  BY <1>1, TimeFields, Units, SMT DEF Value
<1>4. Value(l.until) <= clock
  BY <1>2, <1>3
<1>5. l.until # Forever
  BY <1>3, <1>4, ForeverFacts
<1> QED BY <1>3, <1>4, <1>5 DEF Awaited, Never

LEMMA NowFacts ==
    ASSUME clock \in 0 .. MaxClock
    PROVE  Now \in Time /\ Value(Now) = clock
BY ReadingFacts DEF Now

(* A nap over, the loop believes what the clock says.                      *)
LEMMA WokenFacts ==
    ASSUME ForInv, loop.at = "nap"
    PROVE  LET t == TimeAdd(loop.curr, TimeSub(Now, loop.curr))
           IN  t \in Time /\ Value(t) <= clock /\ Value(t) = clock
<1>1. loop.curr \in Time /\ Now \in Time /\ Value(Now) = clock /\ clock \in Int
  BY NowFacts DEF ForInv
<1>2. /\ TimeSub(Now, loop.curr) \in Time
      /\ Value(TimeSub(Now, loop.curr)) = Value(Now) - Value(loop.curr)
  BY <1>1, SubIsExact
<1>3. Value(loop.curr) \in Int
  BY <1>1, TimeFields, Units, SMT DEF Value
<1>4. /\ TimeAdd(loop.curr, TimeSub(Now, loop.curr)) \in Time
      /\ Value(TimeAdd(loop.curr, TimeSub(Now, loop.curr)))
            = Value(loop.curr) + Value(TimeSub(Now, loop.curr))
  BY <1>1, <1>2, AddIsExact
<1> QED BY <1>1, <1>2, <1>3, <1>4

(* Starting a pass, or leaving.                                            *)
LEMMA AgainFacts ==
    ASSUME clock \in 0 .. MaxClock, NEW l, Awaited(l),
           DOMAIN l = {"at", "until", "curr", "wake", "due"},
           StartPass(l) \/ Leave
    PROVE  ForInv'
<1>1. CASE StartPass(l)
  <2>1. clock' = clock /\ loop' = [l EXCEPT !.at = "pass", !.curr = TimeZero, !.wake = TimeZero]
    BY <1>1 DEF StartPass
  <2>2. loop'.at = "pass" /\ loop'.until = l.until /\ loop'.due = l.due /\ DOMAIN loop' = DOMAIN l
    BY <2>1
  <2> QED BY <2>1, <2>2 DEF ForInv, Awaited
<1>2. CASE Leave
  BY <1>2 DEF Leave, Off, ForInv, vars
<1> QED BY <1>1, <1>2

LEMMA ForInvInit == ForInit => ForInv
BY RuntimeAssumption DEF ForInit, Init, Off, ForInv

LEMMA ForInvStep == ForInv /\ [ForNext]_forVars => ForInv'
<1> SUFFICES ASSUME ForInv, [ForNext]_forVars PROVE ForInv'
  OBVIOUS
<1>1. clock \in 0 .. MaxClock /\ clock \in Nat /\ DOMAIN loop = {"at", "until", "curr", "wake", "due"}
  BY RuntimeAssumption DEF ForInv
<1>2. CASE loop.at = "off" /\ Api /\ UNCHANGED loop
  <2>1. UNCHANGED clock
    BY <1>2 DEF Api, CreateProc, KillProc, SuspendProc, ResumeProc, CancelProc, WaitProc,
            SleepProc, DieProc, PeriodProc, Call
  <2> QED BY <1>2, <2>1 DEF ForInv
<1>3. ASSUME NEW t \in Timeouts, StartFor(t) PROVE ForInv'
  <2> DEFINE l == [Off EXCEPT !.curr  = Now,
                              !.until = IF t = 0 THEN Forever ELSE TimeAdd(Now, Reading(t)),
                              !.due   = IF t = 0 THEN Never ELSE clock + t]
  <2>1. StartPass(l)
    BY <1>3 DEF StartFor
  <2>2. /\ DOMAIN l = {"at", "until", "curr", "wake", "due"}
        /\ l.until = IF t = 0 THEN Forever ELSE TimeAdd(Now, Reading(t))
        /\ l.due = IF t = 0 THEN Never ELSE clock + t
    BY DEF Off
  <2> HIDE DEF l
  <2>3. t \in Nat /\ clock + t \in Nat
    BY <1>1, RunForAssumption
  <2>4. TimeAdd(Now, Reading(t)) \in Time /\ Value(TimeAdd(Now, Reading(t))) = clock + t
    BY <1>1, <2>3, NowFacts, ReadingFacts, AddIsExact
  <2>5. Awaited(l)
    BY <2>2, <2>3, <2>4 DEF Awaited
  <2> QED BY <1>1, <2>1, <2>2, <2>5, AgainFacts
<1>4. CASE loop.at = "pass" /\ Advance /\ UNCHANGED loop
  <2>1. UNCHANGED clock
    BY <1>4 DEF Advance, EndPass, EventOfNobody, LinkToNobody, Return, WakeSleeper, StartEvent, VisitIdle,
            Instruction, StepPlain, StepFork, StepWait, StepSleep, StepEnd, Step,
            CheckMod, WakeNext, EndStep
  <2> QED BY <1>4, <2>1 DEF ForInv
<1>5. CASE PassOver
  <2> DEFINE l       == [loop EXCEPT !.curr = Now]
             request == Request(TimeSub(loop.until, Now))
  <2>1. Awaited(loop)
    BY <1>5 DEF PassOver, ForInv
  <2>2. /\ DOMAIN l = DOMAIN loop /\ l.until = loop.until /\ l.due = loop.due /\ l.curr = Now
    BY <1>1
  <2>3. Awaited(l)
    BY <2>1, <2>2 DEF Awaited
  <2>4. \/ StartPass(l) \/ Leave
        \/ loop' = [l EXCEPT !.at = "nap", !.wake = TimeAdd(Now, Slept(request))] /\ UNCHANGED vars
    BY <1>5 DEF PassOver, Again
  <2> HIDE DEF l, request
  <2>5. CASE StartPass(l) \/ Leave
    BY <1>1, <2>2, <2>3, <2>5, AgainFacts
  <2>6. CASE loop' = [l EXCEPT !.at = "nap", !.wake = TimeAdd(Now, Slept(request))] /\ UNCHANGED vars
    <3>1. /\ DOMAIN loop' = DOMAIN loop /\ loop'.until = loop.until /\ loop'.due = loop.due
          /\ loop'.curr = Now
      BY <1>1, <2>2, <2>6
    <3>2. clock' = clock
      BY <2>6 DEF vars
    <3>3. 0 <= Value(Now) /\ Value(Now) <= clock
      BY <1>1, NowFacts
    <3> QED BY <1>1, <2>1, <3>1, <3>2, <3>3, NowFacts DEF ForInv, Awaited
  <2> QED BY <2>4, <2>5, <2>6
<1>6. CASE WakeUp \/ Interrupted
  <2>1. Awaited(loop)
    BY <1>6 DEF WakeUp, Interrupted, ForInv
  <2>2. PICK l : /\ StartPass(l) \/ Leave
                 /\ \/ l = loop
                    \/ l = [loop EXCEPT !.curr = TimeAdd(loop.curr, TimeSub(Now, loop.curr))]
    BY <1>6 DEF WakeUp, Interrupted, Again
  <2>3. DOMAIN l = DOMAIN loop /\ l.until = loop.until /\ l.due = loop.due
    BY <1>1, <2>2
  <2> QED BY <1>1, <2>1, <2>2, <2>3, AgainFacts DEF Awaited
<1>7. CASE Tick /\ UNCHANGED loop
  <2>1. clock' \in 0 .. MaxClock /\ clock' = clock + 1
    BY <1>1, <1>7, RuntimeAssumption DEF Tick
  <2>2. ASSUME loop.at = "nap" PROVE 0 <= Value(loop.curr) /\ Value(loop.curr) <= clock'
    <3>1. loop.curr \in Time /\ 0 <= Value(loop.curr) /\ Value(loop.curr) <= clock
      BY <2>2 DEF ForInv
    <3>2. Value(loop.curr) \in Int
      BY <3>1, TimeFields, Units, SMT DEF Value
    <3> QED BY <1>1, <2>1, <3>1, <3>2
  <2> QED BY <1>7, <2>1, <2>2 DEF ForInv
<1>8. CASE UNCHANGED forVars
  BY <1>8 DEF forVars, vars, ForInv
<1> QED BY <1>2, <1>3, <1>4, <1>5, <1>6, <1>7, <1>8 DEF ForNext

(* The action of ForRunsOut.                                               *)
RunsOut == loop.at # "off" /\ loop'.at = "off" /\ rt.err = 0
           => rt.size = 0 \/ (loop.due # Never /\ clock >= loop.due)

LEMMA RunsOutStep == ForInv /\ [ForNext]_forVars => [RunsOut]_forVars
<1> SUFFICES ASSUME ForInv, ForNext, loop.at # "off", loop'.at = "off", rt.err = 0, rt.size # 0
             PROVE  loop.due # Never /\ clock >= loop.due
  BY DEF RunsOut
<1>1. clock \in 0 .. MaxClock /\ Awaited(loop) /\ loop.until \in Time
      /\ DOMAIN loop = {"at", "until", "curr", "wake", "due"}
  BY AwaitedTime DEF ForInv

(* The loop is left only where the difference is found negative.           *)
<1>2. ASSUME NEW l, Again(l), DOMAIN l = DOMAIN loop, l.until \in Time, l.curr \in Time
      PROVE  TimeSub(l.until, l.curr).sec < 0
  <2>1. ASSUME StartPass(l) PROVE FALSE
    <3>1. loop' = [l EXCEPT !.at = "pass", !.curr = TimeZero, !.wake = TimeZero]
      BY <2>1 DEF StartPass
    <3>2. loop'.at = "pass"
      BY <1>1, <1>2, <3>1
    <3> QED BY <3>2
  <2>2. ~ TimeSub(l.until, l.curr).sec >= 0
    BY <1>2, <2>1 DEF Again
  <2>3. TimeSub(l.until, l.curr).sec \in Int
    BY <1>2, SubIsExact, TimeFields
  <2> QED BY <2>2, <2>3
<1>3. Now \in Time /\ Value(Now) <= clock
  BY <1>1, NowFacts
<1>4. CASE PassOver
  <2> DEFINE l       == [loop EXCEPT !.curr = Now]
             request == Request(TimeSub(loop.until, Now))
  <2>1. DOMAIN l = DOMAIN loop /\ l.until = loop.until /\ l.curr = Now
    BY <1>1
  <2>2. \/ rt.err < 0 \/ rt.size = 0 \/ TimeSub(loop.until, Now).sec < 0
        \/ Again(l)
        \/ loop' = [l EXCEPT !.at = "nap", !.wake = TimeAdd(Now, Slept(request))]
    BY <1>4 DEF PassOver
  <2> HIDE DEF l, request
  <2>3. ~ loop' = [l EXCEPT !.at = "nap", !.wake = TimeAdd(Now, Slept(request))]
    BY <1>1, <2>1
  <2>4. TimeSub(loop.until, Now).sec < 0
    BY <1>1, <1>2, <1>3, <2>1, <2>2, <2>3
  <2> QED BY <1>1, <1>3, <2>4, TimeIsUp
<1>5. CASE WakeUp
  <2> DEFINE t == TimeAdd(loop.curr, TimeSub(Now, loop.curr))
             l == [loop EXCEPT !.curr = t]
  <2>1. loop.at = "nap" /\ Again(l)
    BY <1>5 DEF WakeUp
  <2>2. t \in Time /\ Value(t) <= clock
    BY <2>1, WokenFacts
  <2>3. DOMAIN l = DOMAIN loop /\ l.until = loop.until /\ l.curr = t
    BY <1>1
  <2> HIDE DEF l, t
  <2>4. TimeSub(loop.until, t).sec < 0
    BY <1>1, <1>2, <2>1, <2>2, <2>3
  <2> QED BY <1>1, <2>2, <2>4, TimeIsUp
<1>6. CASE Interrupted
  <2>1. Again(loop) /\ loop.curr \in Time /\ Value(loop.curr) <= clock
    BY <1>6 DEF Interrupted, ForInv
  <2>2. TimeSub(loop.until, loop.curr).sec < 0
    BY <1>1, <1>2, <2>1
  <2> QED BY <1>1, <2>1, <2>2, TimeIsUp
<1>7. ASSUME NEW t \in Timeouts, StartFor(t) PROVE FALSE
  BY <1>7 DEF StartFor
<1> QED BY <1>4, <1>5, <1>6, <1>7 DEF ForNext

(* runtime.h: run_for "returns zero if timeout is reached or runtime is    *)
(* inactive", and in no other case.                                        *)
THEOREM RunForWaits == ForSpec => ForRunsOut
<1>1. ForInv /\ [ForNext]_forVars => [RunsOut]_forVars
  BY RunsOutStep
<1> QED BY <1>1, ForInvInit, ForInvStep, PTL DEF ForSpec, ForRunsOut, RunsOut
(***************************************************************************)
(* The runtime under run_for: as under any caller, with passes that start  *)
(* at the time the loop has in mind.                                       *)
(***************************************************************************)
LEMMA PassStarts ==
    ASSUME IInv, NEW l, StartPass(l), Value(l.curr) \in Nat
    PROVE  IInv'
<1>1. Sound(rt')
  BY ErrFacts DEF StartPass, IInv, Ok
<1>2. /\ pc' = "pass" /\ pass' = [now |-> Value(l.curr), rcount |-> 0]
      /\ clock' = clock /\ run' = run
  BY DEF StartPass
<1>3. pass' \in [now : Nat, rcount : Nat]
  BY <1>2
<1> QED BY <1>1, <1>2, <1>3 DEF IInv, ThreadOK

LEMMA LoopKeepsRuntime == IInv /\ ForInv /\ [ForNext]_forVars => IInv'
<1> SUFFICES ASSUME IInv, ForInv, [ForNext]_forVars PROVE IInv'
  OBVIOUS
<1>1. clock \in 0 .. MaxClock /\ clock \in Nat
      /\ DOMAIN loop = {"at", "until", "curr", "wake", "due"}
  BY RuntimeAssumption DEF ForInv
<1>2. Value(Now) \in Nat
  BY <1>1, NowFacts
<1>3. CASE Api \/ Advance \/ Tick \/ UNCHANGED vars
  BY <1>3, Inductive DEF Next
<1>4. ASSUME NEW t \in Timeouts, StartFor(t) PROVE IInv'
  <2> DEFINE l == [Off EXCEPT !.curr  = Now,
                              !.until = IF t = 0 THEN Forever ELSE TimeAdd(Now, Reading(t)),
                              !.due   = IF t = 0 THEN Never ELSE clock + t]
  <2>1. StartPass(l)
    BY <1>4 DEF StartFor
  <2>2. l.curr = Now
    BY DEF Off
  <2> HIDE DEF l
  <2> QED BY <1>2, <2>1, <2>2, PassStarts
<1>5. ASSUME NEW l, StartPass(l) \/ Leave, Value(l.curr) \in Nat PROVE IInv'
  BY <1>3, <1>5, PassStarts DEF Leave
<1>6. CASE PassOver
  <2> DEFINE l == [loop EXCEPT !.curr = Now]
  <2>1. l.curr = Now
    BY <1>1
  <2>2. StartPass(l) \/ Leave \/ UNCHANGED vars
    BY <1>6 DEF PassOver, Again
  <2> HIDE DEF l
  <2> QED BY <1>2, <1>3, <1>5, <2>1, <2>2
<1>7. CASE WakeUp
  <2> DEFINE t == TimeAdd(loop.curr, TimeSub(Now, loop.curr))
             l == [loop EXCEPT !.curr = t]
  <2>1. loop.at = "nap" /\ (StartPass(l) \/ Leave)
    BY <1>7 DEF WakeUp, Again
  <2>2. l.curr = t
    BY <1>1
  <2>3. Value(t) = clock
    BY <2>1, WokenFacts
  <2> HIDE DEF l, t
  <2> QED BY <1>1, <1>5, <2>1, <2>2, <2>3
<1>8. CASE Interrupted
  <2>1. (StartPass(loop) \/ Leave) /\ loop.at = "nap"
    BY <1>8 DEF Interrupted, Again
  <2>2. loop.curr \in Time /\ 0 <= Value(loop.curr)
    BY <2>1 DEF ForInv
  <2>3. Value(loop.curr) \in Int
    BY <2>2, TimeFields, Units, SMT DEF Value
  <2>4. Value(loop.curr) \in Nat
    BY <2>2, <2>3
  <2> QED BY <1>5, <2>1, <2>4
<1> QED BY <1>3, <1>4, <1>6, <1>7, <1>8 DEF ForNext, forVars

(***************************************************************************)
(* Naps.                                                                   *)
(***************************************************************************)
LEMMA ValueInt ==
    ASSUME NEW t \in Time
    PROVE  Value(t) \in Int
BY TimeFields, Units, SMT DEF Value

(* usleep is never asked for longer than it was meant to be.               *)
LEMMA SleptShort ==
    ASSUME NEW r \in Time
    PROVE  Slept(r) \in Time /\ Value(Slept(r)) <= Value(r)
<1>1. r.sec \in Int /\ r.nsec \in Nat /\ Mega \in Nat /\ Kilo \in Nat /\ Kilo > 0
      /\ Giga = Mega * Kilo
  BY TimeFields, Units, NdlTimeAssumption
<1> DEFINE q == Quot(r.nsec, Kilo)
<1>2. q \in Int /\ q * Kilo <= r.nsec
  <2>1. /\ q \in Int /\ Rem(r.nsec, Kilo) \in Int
        /\ r.nsec = q * Kilo + Rem(r.nsec, Kilo)
        /\ r.nsec >= 0 => 0 <= Rem(r.nsec, Kilo)
    BY <1>1, QuotRem
  <2> HIDE DEF q
  <2>2. q * Kilo \in Int
    BY <1>1, <2>1, SMT
  <2> QED BY <1>1, <2>1, <2>2
<1>3. ToUsec(r) = r.sec * Mega + q
  BY DEF ToUsec
<1> HIDE DEF q
<1>4. r.sec * Mega \in Int /\ q * Kilo \in Int /\ r.sec * Giga \in Int
  BY <1>1, <1>2, SMT
<1>5. (r.sec * Mega + q) * Kilo = r.sec * Mega * Kilo + q * Kilo
  BY <1>1, <1>2, <1>4, Distributes
<1>6. r.sec * Mega * Kilo = r.sec * Giga
  BY <1>1, SMT
<1>7. ToUsec(r) \in Int
  BY <1>2, <1>3, <1>4
<1>8. Slept(r) \in Time /\ Value(Slept(r)) = ToUsec(r) * Kilo
  BY <1>7, UsecIsExact DEF Slept
<1>9. Value(Slept(r)) = r.sec * Giga + q * Kilo
  BY <1>3, <1>5, <1>6, <1>8
<1> QED BY <1>1, <1>2, <1>4, <1>8, <1>9 DEF Value

LEMMA SoonerFacts ==
    ASSUME NEW a \in Time, NEW b \in Time
    PROVE  Sooner(a, b) \in Time /\ Value(Sooner(a, b)) <= Value(a)
<1>1. Value(a) \in Int /\ Value(b) \in Int
  BY ValueInt
<1>2. CASE TimeCmp(a, b) <= 0
  BY <1>1, <1>2 DEF Sooner
<1>3. CASE ~ TimeCmp(a, b) <= 0
  <2>1. ~ Value(a) < Value(b)
    BY <1>3, CmpIsOrder
  <2> QED BY <1>1, <1>3, <2>1 DEF Sooner
<1> QED BY <1>2, <1>3

(* What csleep asks for does not reach past the event on top.              *)
LEMMA RequestFacts ==
    ASSUME clock \in 0 .. MaxClock, rt.slot[0].when \in Nat, NEW remaining \in Time,
           NEW request, request = Request(remaining), request # TimeZero
    PROVE  request \in Time /\ Value(request) <= rt.slot[0].when - clock
<1>1. PICK left : left = TimeSub(Reading(rt.slot[0].when), Now)
  OBVIOUS
<1>2. PICK limit : limit = IF remaining = TimeZero THEN Forever ELSE TimeAdd(Now, remaining)
  OBVIOUS
<1>3. left \in Time /\ Value(left) = rt.slot[0].when - clock
  BY <1>1, NowFacts, ReadingFacts, SubIsExact
<1>4. limit \in Time
  BY <1>2, NowFacts, ForeverFacts, AddIsExact
<1>5. request = Sooner(left, limit)
  BY <1>1, <1>2 DEF Request
<1> QED BY <1>3, <1>4, <1>5, SoonerFacts

LEMMA NapStep == IInv /\ ForInv /\ NapsEndInTime /\ [ForNext]_forVars => NapsEndInTime'
<1> SUFFICES ASSUME IInv, ForInv, NapsEndInTime, [ForNext]_forVars PROVE NapsEndInTime'
  OBVIOUS
<1>1. clock \in 0 .. MaxClock /\ Sound(rt)
      /\ DOMAIN loop = {"at", "until", "curr", "wake", "due"}
  BY DEF ForInv, IInv
<1>2. ASSUME NEW l, DOMAIN l = DOMAIN loop, StartPass(l) \/ Leave PROVE NapsEndInTime'
  <2>1. DOMAIN l = {"at", "until", "curr", "wake", "due"}
    BY <1>1, <1>2
  <2>2. CASE StartPass(l)
    <3>1. loop'.at = "pass"
      BY <2>1, <2>2 DEF StartPass
    <3> QED BY <3>1 DEF NapsEndInTime
  <2>3. CASE Leave
    <3>1. loop'.at = "off"
      BY <2>3 DEF Leave, Off
    <3> QED BY <3>1 DEF NapsEndInTime
  <2> QED BY <1>2, <2>2, <2>3
<1>3. CASE PassOver
  <2> DEFINE l == [loop EXCEPT !.curr = Now]
  <2>1. PICK request : request = Request(TimeSub(loop.until, Now))
    OBVIOUS
  <2>2. /\ loop.at = "pass" /\ DOMAIN l = DOMAIN loop
        /\ \/ StartPass(l) \/ Leave
           \/ /\ loop' = [l EXCEPT !.at = "nap", !.wake = TimeAdd(Now, Slept(request))]
              /\ UNCHANGED vars /\ rt.size # 0 /\ request # TimeZero
    BY <1>3, <2>1 DEF PassOver, Again
  <2> HIDE DEF l
  <2>3. CASE StartPass(l) \/ Leave
    BY <1>2, <2>2, <2>3
  <2>4. CASE /\ loop' = [l EXCEPT !.at = "nap", !.wake = TimeAdd(Now, Slept(request))]
             /\ UNCHANGED vars /\ rt.size # 0 /\ request # TimeZero
    <3>1. loop'.wake = TimeAdd(Now, Slept(request)) /\ rt' = rt
      BY <1>1, <2>2, <2>4 DEF vars
    <3>2. /\ Timed(rt) /\ \A i \in 0 .. rt.size - 1 : rt.slot[0].when <= rt.slot[i].when
          /\ rt.slot[0] \in Event
      BY <1>1, TimedFacts, TopEarliest, SoundFacts, SlotFacts DEF IsHeap
    <3>3. rt.slot[0].when \in Nat
      BY <3>2 DEF Event
    <3>4. TimeSub(loop.until, Now) \in Time
      BY <1>1, <2>2, AwaitedTime, NowFacts, SubIsExact DEF ForInv
    <3>5. request \in Time /\ Value(request) <= rt.slot[0].when - clock
      BY <1>1, <2>1, <2>4, <3>3, <3>4, RequestFacts
    <3>6. Slept(request) \in Time /\ Value(Slept(request)) <= Value(request)
      BY <3>5, SleptShort
    <3>7. /\ Value(TimeAdd(Now, Slept(request))) = clock + Value(Slept(request))
          /\ Value(request) \in Int /\ Value(Slept(request)) \in Int /\ clock \in Int
      BY <1>1, <3>5, <3>6, NowFacts, AddIsExact, ValueInt
    <3>8. Value(loop'.wake) <= rt.slot[0].when /\ Value(loop'.wake) \in Int
      BY <3>1, <3>3, <3>5, <3>6, <3>7
    <3>9. ASSUME NEW i \in 0 .. rt.size - 1 PROVE Value(loop'.wake) <= rt.slot[i].when
      <4>1. i \in Slot
        BY <3>2, CapAssumption DEF Timed, Slot
      <4>2. rt.slot[i].when \in Int
        BY <3>2, <4>1 DEF Timed
      <4> QED BY <3>2, <3>3, <3>8, <4>2, Transitive
    <3> QED BY <3>1, <3>9 DEF NapsEndInTime
  <2> QED BY <2>2, <2>3, <2>4
<1>4. CASE WakeUp \/ Interrupted
  <2>1. PICK l : DOMAIN l = DOMAIN loop /\ (StartPass(l) \/ Leave)
    <3>1. DOMAIN [loop EXCEPT !.curr = TimeAdd(loop.curr, TimeSub(Now, loop.curr))] = DOMAIN loop
      OBVIOUS
    <3> QED BY <1>4, <3>1 DEF WakeUp, Interrupted, Again
  <2> QED BY <1>2, <2>1
<1>5. ASSUME NEW t \in Timeouts, StartFor(t) PROVE NapsEndInTime'
  <2> DEFINE l == [Off EXCEPT !.curr  = Now,
                              !.until = IF t = 0 THEN Forever ELSE TimeAdd(Now, Reading(t)),
                              !.due   = IF t = 0 THEN Never ELSE clock + t]
  <2>1. StartPass(l) /\ DOMAIN l = DOMAIN loop
    BY <1>1, <1>5 DEF StartFor, Off
  <2> HIDE DEF l
  <2> QED BY <1>2, <2>1
<1>6. CASE loop.at # "nap" /\ UNCHANGED loop
  BY <1>6 DEF NapsEndInTime
<1>7. CASE Tick /\ UNCHANGED loop
  BY <1>7 DEF Tick, NapsEndInTime
<1>8. CASE UNCHANGED forVars
  BY <1>8 DEF forVars, vars, NapsEndInTime
<1> QED BY <1>3, <1>4, <1>5, <1>6, <1>7, <1>8 DEF ForNext

(* No event is slept through: wherever in the heap an event is, a nap that *)
(* was measured by the one on top ends no later than it.                   *)
THEOREM NapsAreInTime == ForSpec => []NapsEndInTime
<1>1. ForInit => IInv /\ ForInv /\ NapsEndInTime
  BY InitFacts, ForInvInit DEF ForInit, Off, NapsEndInTime
<1>2. IInv /\ ForInv /\ NapsEndInTime /\ [ForNext]_forVars => (IInv /\ ForInv /\ NapsEndInTime)'
  BY LoopKeepsRuntime, ForInvStep, NapStep
<1> QED BY <1>1, <1>2, PTL DEF ForSpec
=============================================================================
