----------------------------- MODULE ThreadLife -----------------------------
(***************************************************************************)
(* The life of threads: API_ThreadCreate, ThreadStart, ThreadJoin,          *)
(* ThreadDetach, ThreadDelete, ThreadForceDelete and safe mode               *)
(* (LW_THREAD_SAFE, LW_THREAD_UNSAFE).                                       *)
(*                                                                         *)
(* What a call does between __KERNEL_ENTER and __KERNEL_EXIT is one step.    *)
(* Deletion has several: the target is marked, made a zombie, unlinked, and  *)
(* its TCB released, and other threads run in between.  A thread that ends   *)
(* itself leaves these steps to the exception thread, which takes its jobs   *)
(* in order.                                                                 *)
(*                                                                         *)
(* Threads are TCBs, which are used again: a handle is the index of a TCB.   *)
(* All belong to one process.  Waits other than join, suspension by          *)
(* applications, and return values are left out.  Calls that return an       *)
(* error and change nothing are left out.                                    *)
(***************************************************************************)
EXTENDS Integers, Sequences, FiniteSets

CONSTANTS
  Threads,         \* the TCBs
  Null,
  Gone,            \* (PLW_CLASS_TCB)1: the deleter does not wait any more
  Exc,             \* the exception thread
  MaxSafe,         \* bound: nesting of safe mode
  MaxEnds,         \* bound: deletions begun
  Creates,         \* options of new threads: [posix, detached, init]
  AutoRec,         \* the values of LW_KERN_AUTO_REC_TCB_GET()
  ForcesAwaited    \* may a thread whose deleter waits be deleted by force?

ASSUME ThreadLifeAssumption ==
  /\ Cardinality({Null, Gone, Exc}) = 3
  /\ {Null, Gone, Exc} \cap Threads = {}
  /\ MaxSafe \in Nat \ {0} /\ MaxEnds \in Nat
  /\ Creates \subseteq [posix : BOOLEAN, detached : BOOLEAN, init : BOOLEAN]
  /\ AutoRec \subseteq BOOLEAN /\ AutoRec # {}
  /\ ForcesAwaited \in BOOLEAN

VARIABLES
  autoRec,      \* LW_KERN_AUTO_REC_TCB_GET(), a parameter of the kernel
  freed,        \* how often a TCB is linked into the free list
  table,        \* the TCBs in _K_ptcbTCBIdTable
  twj,          \* the TCBs in _K_twjTable
  posix,        \* TCBs with LW_OPTION_THREAD_POSIX
  detached,     \* TCBs with TCB_bDetachFlag
  usStatus,     \* TCB_usStatus
  inRing,       \* how often a TCB is linked into a ready ring
  ptcbJoin,     \* TCB_ptcbJoin
  joinHeader,   \* TCB_plineJoinHeader, the threads that join this one
  safe,         \* TCB_ulThreadSafeCounter
  deleteMe,     \* TCB_ptcbDeleteMe
  deleteWait,   \* TCB_ptcbDeleteWait
  delProc,      \* TCB_iDeleteProcStatus
  pc,           \* where a thread is in its calls
  job,          \* how far the deletion of a TCB is, and by whom
  excQ,         \* jobs of the exception thread
  ends          \* counts the deletions begun

tcbVars  == <<autoRec, freed, table, twj, posix, detached>>
runVars  == <<usStatus, inRing>>
joinVars == <<ptcbJoin, joinHeader>>
safeVars == <<safe, deleteMe, deleteWait>>
procVars == <<delProc, pc, job, excQ, ends>>
vars == <<tcbVars, runVars, joinVars, safeVars, procVars>>

NoJob == [stage |-> "none", by |-> Null, jwt |-> FALSE]

TypeOK ==
  /\ autoRec \in AutoRec
  /\ freed \in [Threads -> {0, 1}]
  /\ table \subseteq Threads
  /\ twj \subseteq Threads
  /\ posix \subseteq Threads
  /\ detached \subseteq Threads
  /\ usStatus \in [Threads -> SUBSET {"INIT", "JOIN", "SUSPEND", "WDEATH"}]
  /\ inRing \in [Threads -> {0, 1}]
  /\ ptcbJoin \in [Threads -> Threads \cup {Null}]
  /\ joinHeader \in [Threads -> SUBSET Threads]
  /\ safe \in [Threads -> 0 .. MaxSafe + 1]
  /\ deleteMe \in [Threads -> Threads \cup {Null, Gone}]
  /\ deleteWait \in [Threads -> Threads \cup {Null}]
  /\ delProc \in [Threads -> {"NONE", "DEL"}]
  /\ pc \in [Threads -> {"run", "hook", "works", "leave", "dying", "sleep"}]
  /\ job \in [Threads -> [stage : {"none", "marked", "zombie", "unlinked"},
                          by : Threads \cup {Null, Exc}, jwt : BOOLEAN]]
  /\ excQ \in Seq(Threads)
  /\ ends \in 0 .. MaxEnds

Init ==
  /\ autoRec \in AutoRec
  /\ table \in {{t} : t \in Threads}
  /\ freed = [t \in Threads |-> IF t \in table THEN 0 ELSE 1]
  /\ twj = {} /\ posix = {} /\ detached = {}
  /\ usStatus = [t \in Threads |-> {}]
  /\ inRing = [t \in Threads |-> IF t \in table THEN 1 ELSE 0]
  /\ ptcbJoin = [t \in Threads |-> Null]
  /\ joinHeader = [t \in Threads |-> {}]
  /\ safe = [t \in Threads |-> 0]
  /\ deleteMe = [t \in Threads |-> Null]
  /\ deleteWait = [t \in Threads |-> Null]
  /\ delProc = [t \in Threads |-> "NONE"]
  /\ pc = [t \in Threads |-> "run"]
  /\ job = [t \in Threads |-> NoJob]
  /\ excQ = <<>>
  /\ ends = 0

-----------------------------------------------------------------------------
(* The ready ring *)

IsReady(t) == usStatus[t] = {}

\* t executes at this point of its calls.
At(t, p) == t \in table /\ IsReady(t) /\ pc[t] = p

\* Blocks the running thread t (_ThreadJoinWait, _ThreadSafeSuspend).
Block(t, bit) ==
  /\ usStatus' = [usStatus EXCEPT ![t] = @ \cup {bit}]
  /\ inRing' = [inRing EXCEPT ![t] = @ - 1]

\* Takes the bit off the threads of S (_ThreadJoinWakeup, _ThreadSafeResume).
Unblock(S, bit) ==
  /\ usStatus' = [t \in Threads |-> usStatus[t] \ (IF t \in S THEN {bit} ELSE {})]
  /\ inRing' = [t \in Threads |->
                  IF t \in S /\ usStatus[t] \ {bit} = {} THEN inRing[t] + 1 ELSE inRing[t]]

-----------------------------------------------------------------------------
(* Creation and start *)

\* Nothing asks for the end of a new thread.
TCBBuild(t) ==
  /\ safe' = [safe EXCEPT ![t] = 0]
  /\ deleteMe' = [deleteMe EXCEPT ![t] = Null]
  /\ deleteWait' = [deleteWait EXCEPT ![t] = Null]
  /\ delProc' = [delProc EXCEPT ![t] = "NONE"]

ThreadCreate(c, t) ==
  /\ At(c, "run") /\ freed[t] > 0
  /\ freed' = [freed EXCEPT ![t] = @ - 1]
  /\ table' = table \cup {t}
  /\ \E o \in Creates :
       /\ posix' = IF o.posix THEN posix \cup {t} ELSE posix \ {t}
       /\ detached' = IF o.detached THEN detached \cup {t} ELSE detached \ {t}
       /\ usStatus' = [usStatus EXCEPT ![t] = IF o.init THEN {"INIT"} ELSE {}]
       /\ inRing' = [inRing EXCEPT ![t] = IF o.init THEN @ ELSE @ + 1]
  /\ ptcbJoin' = [ptcbJoin EXCEPT ![t] = Null]
  /\ joinHeader' = [joinHeader EXCEPT ![t] = {}]
  /\ TCBBuild(t)
  /\ pc' = [pc EXCEPT ![t] = "run"]
  /\ UNCHANGED <<autoRec, twj, job, excQ, ends>>

\* _ThreadJoin of a thread that lives: c links itself into t's list.
Join(c, t) ==
  /\ joinHeader' = [joinHeader EXCEPT ![t] = @ \cup {c}]
  /\ ptcbJoin' = [ptcbJoin EXCEPT ![c] = t]

\* API_ThreadStartEx.  It looks neither at TCB_iDeleteProcStatus nor, to join,
\* at TCB_bDetachFlag, and takes off INIT even if another bit holds the thread.
ThreadStart(c, t, bJoin) ==
  /\ At(c, "run") /\ t \in table /\ "INIT" \in usStatus[t]
  /\ LET starts == usStatus[t] = {"INIT"}
         joins  == starts /\ bJoin
     IN /\ usStatus' = [u \in Threads |->
                          CASE u = t -> usStatus[t] \ {"INIT"}
                            [] u = c /\ joins -> {"JOIN"}
                            [] OTHER -> usStatus[u]]
        /\ inRing' = [u \in Threads |->
                        CASE u = t /\ starts -> inRing[u] + 1
                          [] u = c /\ joins -> inRing[u] - 1
                          [] OTHER -> inRing[u]]
        /\ IF joins THEN Join(c, t) ELSE UNCHANGED joinVars
  /\ UNCHANGED <<tcbVars, safeVars, procVars>>

-----------------------------------------------------------------------------
(* Join and detach *)

\* The entry stays in the wait-join table.
Reap_Kept(t) ==
  /\ freed' = [freed EXCEPT ![t] = @ + 1]
  /\ UNCHANGED <<autoRec, table, twj, posix, detached, runVars, joinVars>>

\* _ThreadJoin and _ThreadDetach of a thread that is over: nobody waits, the
\* TCB leaves the wait-join table for the free list.
Reap(t) ==
  /\ freed' = [freed EXCEPT ![t] = @ + 1]
  /\ twj' = twj \ {t}
  /\ UNCHANGED <<autoRec, table, posix, detached, runVars, joinVars>>

ThreadJoin(c, t) ==
  /\ At(c, "run")
  /\ \/ /\ t \in table \ detached /\ t # c
        /\ Join(c, t)
        /\ Block(c, "JOIN")
        /\ UNCHANGED tcbVars
     \/ /\ t \in twj \ table /\ ~autoRec
        /\ Reap(t)
  /\ UNCHANGED <<safeVars, procVars>>

ThreadDetach(c, t) ==
  /\ At(c, "run")
  /\ \/ /\ t \in table \ detached
        /\ Unblock(joinHeader[t], "JOIN")
        /\ ptcbJoin' = [u \in Threads |-> IF u \in joinHeader[t] THEN Null ELSE ptcbJoin[u]]
        /\ joinHeader' = [joinHeader EXCEPT ![t] = {}]
        /\ detached' = detached \cup {t}
        /\ UNCHANGED <<autoRec, freed, table, twj, posix>>
     \/ /\ t \in twj \ table /\ ~autoRec
        /\ Reap(t)
  /\ UNCHANGED <<safeVars, procVars>>

\* __sigMakeReady for a signal that must end the thread: it leaves its join
\* and runs the handler.
SignalExit(t) ==
  /\ t \in table /\ delProc[t] = "NONE" /\ ptcbJoin[t] # Null
  /\ joinHeader' = [joinHeader EXCEPT ![ptcbJoin[t]] = @ \ {t}]
  /\ ptcbJoin' = [ptcbJoin EXCEPT ![t] = Null]
  /\ Unblock({t}, "JOIN")
  /\ UNCHANGED <<tcbVars, safeVars, procVars>>

-----------------------------------------------------------------------------
(* Safe mode *)

ThreadSafe(c) ==
  /\ At(c, "run") /\ safe[c] < MaxSafe
  /\ safe' = [safe EXCEPT ![c] = @ + 1]
  /\ UNCHANGED <<tcbVars, runVars, joinVars, deleteMe, deleteWait, procVars>>

\* The thread _ThreadUnsafeInternalEx resumes.
Deleter(c) == {u \in table \ {c} : u = deleteMe[c]}

\* _ThreadUnsafeInternalEx, by the application or at the end of a call that
\* deleted another thread.  c then deletes itself if it was asked to.
ThreadUnsafe(c) ==
  /\ At(c, "leave") \/ (At(c, "run") /\ safe[c] > 0)
  /\ LET last == safe[c] = 1
         asked == last /\ deleteMe[c] # Null
         wake == IF last THEN Deleter(c) ELSE {}
     IN /\ safe' = [safe EXCEPT ![c] = IF @ > 0 THEN @ - 1 ELSE 0]
        /\ deleteMe' = IF asked THEN [deleteMe EXCEPT ![c] = Null] ELSE deleteMe
        /\ deleteWait' = [u \in Threads |-> IF u \in wake THEN Null ELSE deleteWait[u]]
        /\ Unblock(wake, "SUSPEND")
        /\ pc' = [pc EXCEPT ![c] = IF asked THEN "dying" ELSE "run"]
  /\ UNCHANGED <<tcbVars, joinVars, delProc, job, excQ, ends>>

-----------------------------------------------------------------------------
(* Deletion *)

\* The target is marked; c enters safe mode.  A thread that ends itself runs
\* its hooks first.
Mark(c, d) ==
  /\ ends < MaxEnds /\ ends' = ends + 1
  /\ delProc' = [delProc EXCEPT ![d] = "DEL"]
  /\ safe' = [safe EXCEPT ![c] = @ + 1]
  /\ pc' = [pc EXCEPT ![c] = IF c = d THEN "hook" ELSE "works"]
  /\ job' = [job EXCEPT ![d] = [stage |-> "marked", by |-> c, jwt |-> FALSE]]
  /\ UNCHANGED <<tcbVars, runVars, joinVars, deleteMe, deleteWait, excQ>>

\* for (;;) API_TimeSleep: c calls on itself while somebody deletes it.
SleepsForEver(c) ==
  /\ delProc[c] # "NONE"
  /\ pc' = [pc EXCEPT ![c] = "sleep"]
  /\ UNCHANGED <<tcbVars, runVars, joinVars, safeVars, delProc, job, excQ, ends>>

\* A thread in safe mode is asked to delete itself, and c waits until it does.
AskToDelete(c, d) ==
  /\ safe[d] > 0 /\ deleteMe[d] = Null
  /\ deleteMe' = [deleteMe EXCEPT ![d] = c]
  /\ IF c = d THEN UNCHANGED <<deleteWait, runVars>>
              ELSE deleteWait' = [deleteWait EXCEPT ![c] = d] /\ Block(c, "SUSPEND")
  /\ UNCHANGED <<tcbVars, joinVars, safe, procVars>>

ThreadDelete(c, d) ==
  /\ At(c, "run") \/ (At(c, "dying") /\ c = d)
  /\ d \in table
  /\ \/ c = d /\ SleepsForEver(c)
     \/ delProc[d] = "NONE" /\ AskToDelete(c, d)
     \/ delProc[d] = "NONE" /\ safe[d] = 0 /\ Mark(c, d)

\* API_ThreadForceDelete does not look at safe mode.
ThreadForceDelete(c, d) ==
  /\ At(c, "run") /\ d \in table
  /\ \/ c = d /\ SleepsForEver(c)
     \/ /\ delProc[d] = "NONE"
        /\ ForcesAwaited \/ deleteMe[d] \notin Threads \ {d}
        /\ Mark(c, d)

\* The job is dropped if the queue has one.
ExcJobAdd_Dropped(d) ==
  /\ At(d, "hook")
  /\ safe' = [safe EXCEPT ![d] = @ - 1]
  /\ pc' = [pc EXCEPT ![d] = "sleep"]
  /\ job' = [job EXCEPT ![d].by = Exc]
  /\ excQ' = IF excQ = <<>> THEN <<d>> ELSE excQ
  /\ UNCHANGED <<tcbVars, runVars, joinVars, deleteMe, deleteWait, delProc, ends>>

\* A thread that ends itself gives the rest to the exception thread.
ExcJobAdd(d) ==
  /\ At(d, "hook")
  /\ safe' = [safe EXCEPT ![d] = @ - 1]
  /\ pc' = [pc EXCEPT ![d] = "sleep"]
  /\ job' = [job EXCEPT ![d].by = Exc]
  /\ excQ' = Append(excQ, d)
  /\ UNCHANGED <<tcbVars, runVars, joinVars, deleteMe, deleteWait, delProc, ends>>

\* Whoever deletes d executes.
WorksOn(d) == IF job[d].by = Exc THEN excQ # <<>> /\ Head(excQ) = d
                                 ELSE job[d].by # Null /\ At(job[d].by, "works")

\* Takes d off the ready ring whether it is linked or not.
WaitDeath_NotTested(d) ==
  /\ job[d].stage = "marked" /\ WorksOn(d)
  /\ Block(d, "WDEATH")
  /\ job' = [job EXCEPT ![d].stage = "zombie"]
  /\ UNCHANGED <<tcbVars, joinVars, safeVars, delProc, pc, excQ, ends>>

\* _ThreadDeleteWaitDeath: d never runs again.
WaitDeath(d) ==
  /\ job[d].stage = "marked" /\ WorksOn(d)
  /\ IF IsReady(d) THEN Block(d, "WDEATH")
                   ELSE /\ usStatus' = [usStatus EXCEPT ![d] = @ \cup {"WDEATH"}]
                        /\ UNCHANGED inRing
  /\ job' = [job EXCEPT ![d].stage = "zombie"]
  /\ UNCHANGED <<tcbVars, joinVars, safeVars, delProc, pc, excQ, ends>>

\* The thread d waits to see deleted keeps its pointer to d.
StopWaiting_Untold(d) ==
  /\ deleteWait' = [deleteWait EXCEPT ![d] = Null]
  /\ UNCHANGED deleteMe

\* The thread d waits to see deleted is told that nobody waits any more.
StopWaiting(d) ==
  /\ deleteMe' = IF deleteWait[d] # Null THEN [deleteMe EXCEPT ![deleteWait[d]] = Gone]
                                         ELSE deleteMe
  /\ deleteWait' = [deleteWait EXCEPT ![d] = Null]

\* d stays in the list of the thread it joins.
Disjoin_StaysInList(d) ==
  /\ ptcbJoin' = [t \in Threads |-> IF t = d \/ t \in joinHeader[d] THEN Null ELSE ptcbJoin[t]]
  /\ joinHeader' = [joinHeader EXCEPT ![d] = {}]

\* d leaves the list of the thread it joins, and those who join d leave its own.
Disjoin(d) ==
  /\ ptcbJoin' = [t \in Threads |-> IF t = d \/ t \in joinHeader[d] THEN Null ELSE ptcbJoin[t]]
  /\ joinHeader' = [t \in Threads |-> IF t = d THEN {} ELSE joinHeader[t] \ {d}]

\* The thread that ends is woken from its own join, too.
Woken_AlsoItself(d) == joinHeader[d] \cup (IF ptcbJoin[d] # Null THEN {d} ELSE {})

\* The threads the end of d links into the ready ring: not d itself, which leaves
\* its own join with bWakeup = LW_FALSE.
Woken(d) == joinHeader[d]

\* The first part of __threadDelete, in the kernel.
ThreadUnlink(d) ==
  /\ job[d].stage = "zombie" /\ WorksOn(d)
  /\ StopWaiting(d)
  /\ Disjoin(d)
  /\ usStatus' = [t \in Threads |-> CASE t = d -> {}
                                      [] t \in Woken(d) \ {d} -> usStatus[t] \ {"JOIN"}
                                      [] OTHER -> usStatus[t]]
  /\ inRing' = [t \in Threads |-> IF t \in Woken(d) /\ (t = d \/ usStatus[t] = {"JOIN"})
                                  THEN inRing[t] + 1 ELSE inRing[t]]
  /\ table' = table \ {d}
  /\ detached' = detached \cup {d}
  /\ job' = [job EXCEPT ![d] = [stage |-> "unlinked", by |-> job[d].by,
                                jwt |-> d \notin detached /\ joinHeader[d] = {}
                                        /\ ~autoRec /\ d \in posix]]
  /\ UNCHANGED <<autoRec, freed, twj, posix, safe, delProc, pc, excQ, ends>>

\* Who did the work is done with d.  Nobody goes on with a deletion that d had
\* begun itself, when it was marked and before it was a zombie.
EndWork(d) ==
  /\ job' = [t \in Threads |-> CASE t = d -> NoJob
                                 [] t # d /\ job[t].by = d -> [job[t] EXCEPT !.by = Null]
                                 [] OTHER -> job[t]]
  /\ excQ' = IF job[d].by = Exc THEN Tail(excQ) ELSE excQ

\* The rest of __threadDelete: the TCB waits for a join or is free.  Its fields
\* are not read again before ThreadCreate sets them; here they get the same
\* values now.
ThreadRelease(d) ==
  /\ job[d].stage = "unlinked" /\ WorksOn(d)
  /\ IF job[d].jwt
       THEN twj' = twj \cup {d} /\ UNCHANGED freed
       ELSE freed' = [freed EXCEPT ![d] = @ + 1] /\ UNCHANGED twj
  /\ EndWork(d)
  /\ TCBBuild(d)
  /\ posix' = posix \ {d}
  /\ detached' = detached \ {d}
  /\ pc' = [t \in Threads |-> CASE t = d -> "run"
                                [] t = job[d].by -> "leave"
                                [] OTHER -> pc[t]]
  /\ UNCHANGED <<autoRec, table, runVars, joinVars, ends>>

-----------------------------------------------------------------------------
\* The steps that finish what was begun.
Work(d) == WaitDeath(d) \/ ThreadUnlink(d) \/ ThreadRelease(d)

Next ==
  \/ \E c, t \in Threads :
       \/ ThreadCreate(c, t)
       \/ \E bJoin \in BOOLEAN : ThreadStart(c, t, bJoin)
       \/ ThreadJoin(c, t)
       \/ ThreadDetach(c, t)
       \/ ThreadDelete(c, t)
       \/ ThreadForceDelete(c, t)
  \/ \E t \in Threads :
       SignalExit(t) \/ ThreadSafe(t) \/ ThreadUnsafe(t) \/ ExcJobAdd(t) \/ Work(t)

Spec == Init /\ [][Next]_vars

-----------------------------------------------------------------------------
(* Properties *)

\* A thread that lives is linked into the ready ring exactly once if no status
\* bit holds it, and a thread that is over is not, although joins are ended from
\* both sides (_ThreadDisjoin with and without bWakeup) and deletion clears the
\* status of a thread it took off the ring before.
ReadyRingOnce ==
  \A t \in Threads : inRing[t] = IF t \in table /\ IsReady(t) THEN 1 ELSE 0

\* Joins agree: a thread is in the list of the thread it joins and in no other,
\* is held by LW_THREAD_STATUS_JOIN, and both live.  No list holds a TCB that
\* was deleted while it waited.
JoinConsistent ==
  \A t, u \in Threads :
    /\ t \in joinHeader[u] <=> ptcbJoin[t] = u
    /\ ptcbJoin[t] = u => {t, u} \subseteq table
    /\ t \in table => (ptcbJoin[t] # Null <=> "JOIN" \in usStatus[t])

\* A thread that waits for another one to delete itself is known to that
\* thread, and no thread knows a deleter that is over (TCB_ptcbDeleteMe and
\* TCB_ptcbDeleteWait point to each other).
DeleterAwaited ==
  \A t, d \in Threads :
    /\ deleteWait[t] = d => /\ {t, d} \subseteq table
                            /\ deleteMe[d] = t /\ safe[d] > 0
                            /\ "SUSPEND" \in usStatus[t]
    /\ deleteMe[d] = t /\ t # d => deleteWait[t] = d

\* Somebody goes on with the deletion of t: the exception thread, which has its
\* job, the thread that deletes it, or t itself in its hooks.
GoesOn(t) ==
  \/ job[t].by = Exc /\ \E i \in 1..Len(excQ) : excQ[i] = t
  \/ job[t].by # t /\ At(job[t].by, "works")
  \/ job[t].by = t /\ At(t, "hook")

\* The thread that deleted t was itself made a zombie before it was done, or is
\* over by now.
Abandoned(t) ==
  /\ job[t].by # Exc
  /\ job[t].by \in Threads => job[job[t].by].stage \in {"zombie", "unlinked"}

\* A deletion that has begun goes on, whoever runs, exits or deletes in between:
\* the one who does it is not blocked and has not turned to something else, and
\* the exception thread has the jobs of all that ended themselves.  It stops
\* only if the thread that does it is deleted (API_ThreadForceDelete, or a mark
\* set before it began).
DeletionGoesOn ==
  \A t \in Threads : job[t].stage # "none" => GoesOn(t) \/ Abandoned(t)

\* Nobody goes on with a TCB that was unlinked: it is in no table any more.
Lost(t) == job[t].stage = "unlinked" /\ Abandoned(t)

\* A TCB is in one place: in the table of threads, with a deletion that has
\* unlinked it and goes on, in the table of threads to be joined, or once on the
\* free list, through the joins that reap it and the deletions of several
\* threads.  It is in none of them only if it is lost with the thread that had
\* unlinked it.
OnePlace ==
  \A t \in Threads :
    Cardinality({x \in {"table", "twj", "deletion", "lost"} :
                   \/ x = "table" /\ t \in table
                   \/ x = "twj" /\ t \in twj
                   \/ x = "deletion" /\ job[t].stage = "unlinked" /\ GoesOn(t)
                   \/ x = "lost" /\ Lost(t)}) + freed[t] = 1

\* No TCB is ever lost.  This holds while DeletersSpared does.
NothingLost == \A t \in Threads : ~Lost(t)

\* Nobody deletes a thread that is deleting another one.
DeletersSpared ==
  \A t, d \in Threads : t # d /\ job[d].by = t => job[t].stage = "none"
=============================================================================
