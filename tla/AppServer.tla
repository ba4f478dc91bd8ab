------------------------------- MODULE AppServer -------------------------------
(***************************************************************************)
(* One app-server from launch to clean-up (src/src/process.rs, with         *)
(* src/src/config.rs for what is launched and src/src/orchestrator.rs for   *)
(* its caller): the pinned executable and the credential, the working       *)
(* directory with the copy of the credential, the process group with        *)
(* descendants that fork, leave it and hold its stderr, the steps of        *)
(* shutdown, and Drop, when a deadline drops the caller at an await.        *)
(***************************************************************************)
EXTENDS Naturals, FiniteSets

CONSTANTS
    Leader,       \* the process that is spawned
    Descendant,   \* those it may start
    Pinned,       \* the executable of codex.lock
    Other,        \* any other one
    Deadline      \* may a deadline drop the caller (api.rs:388)?

Proc == Descendant \cup {Leader}

ASSUME AppServerAssumption ==
    /\ Leader \notin Descendant /\ Pinned # Other /\ Deadline \in BOOLEAN

VARIABLES
    path,        \* the executable at native_path
    file,        \* the credential at its path
    exe,         \* the executable behind VerifiedExecutable
    auth,        \* the credential behind VerifiedSubscriptionAuth
    cwd,         \* the ephemeral directory
    copy,        \* the credential's copy in codex-home
    image,       \* what the leader executes
    proc,        \* the processes
    member,      \* those in the leader's process group
    piped,       \* those that have the write end of its stderr
    reused,      \* what became of a later group with the number of the leader's
    pc,          \* where the caller is
    child,       \* who holds the Child
    drain,       \* the task that reads stderr
    result       \* what the caller returns

sources == <<path, file>>
kernel == <<proc, member, piped, reused>>
directory == <<cwd, copy>>
handles == <<exe, auth, image>>
vars == <<sources, handles, directory, kernel, pc, child, drain, result>>

-------------------------------------------------------------------------------
FileKind == {"private", "shared", "link"}
Nothing == "nothing"

Cleaning == {"unlink", "remove"}
Returned == {"done", "dropped"}

TypeOK ==
    /\ path \in {Pinned, Other} /\ file \in FileKind
    /\ exe \in {Pinned, Other, Nothing} /\ image \in {Pinned, Other, Nothing}
    /\ auth \in FileKind \cup {Nothing} /\ copy \in FileKind \cup {Nothing}
    /\ cwd \in {"none", "there", "gone"}
    /\ proc \in [Proc -> {"none", "up", "dying", "zombie", "gone"}]
    /\ member \in SUBSET Proc /\ piped \in SUBSET Proc
    /\ reused \in {"no", "up", "killed"}
    /\ pc \in {"verify", "check", "open", "cwd", "provision", "spawn", "flow", "kill", "wait", "join"}
           \cup Cleaning \cup Returned
    /\ child \in {"none", "held", "taken", "dropped", "reaped"}
    /\ drain \in {"none", "reading", "ended", "aborted"}
    /\ result \in {"none", "ok", "flow", "launch", "spawn", "cleanup"}

Init ==
    /\ path \in {Pinned, Other} /\ file \in FileKind
    /\ exe = Nothing /\ auth = Nothing /\ image = Nothing
    /\ cwd = "none" /\ copy = Nothing
    /\ proc = [p \in Proc |-> "none"] /\ member = {} /\ piped = {} /\ reused = "no"
    /\ pc = "verify" /\ child = "none" /\ drain = "none" /\ result = "none"

-------------------------------------------------------------------------------
(* The system around it *)

\* A package manager replaces the executable; the operator the credential.
Replace ==
    /\ \/ path' \in {Pinned, Other} \ {path} /\ UNCHANGED file
       \/ file' \in FileKind \ {file} /\ UNCHANGED path
    /\ UNCHANGED <<handles, directory, kernel, pc, child, drain, result>>

Up(p) == proc[p] = "up"
Alive(p) == proc[p] \in {"up", "dying"}

\* A fork inherits the group, and the pipe unless it closes it.
Fork(p, q) ==
    /\ Up(p) /\ proc[q] = "none"
    /\ proc' = [proc EXCEPT ![q] = "up"]
    /\ member' = IF p \in member THEN member \cup {q} ELSE member
    /\ piped' \in {piped} \cup (IF p \in piped THEN {piped \cup {q}} ELSE {})
    /\ UNCHANGED <<sources, handles, directory, reused, pc, child, drain, result>>

\* A descendant leaves the group.
Leave(q) ==
    /\ Up(q) /\ q \in member \ {Leader}
    /\ member' = member \ {q}
    /\ UNCHANGED <<sources, handles, directory, proc, piped, reused, pc, child, drain, result>>

\* A process ends, by itself or by the signal once it can take it; the leader stays to be reaped.
End(p) ==
    /\ Alive(p)
    /\ proc' = [proc EXCEPT ![p] = IF p = Leader THEN "zombie" ELSE "gone"]
    /\ piped' = piped \ {p}
    /\ UNCHANGED <<sources, handles, directory, member, reused, pc, child, drain, result>>

\* A process rewrites its credential as long as there is a directory.
Rewrite(p) ==
    /\ Up(p) /\ cwd = "there" /\ copy = Nothing
    /\ copy' = "private"
    /\ UNCHANGED <<sources, handles, cwd, kernel, pc, child, drain, result>>

\* The number of the group is given to another one when nobody uses it any more.
Reuse ==
    /\ proc[Leader] = "gone" /\ \A p \in member : ~Alive(p)
    /\ reused = "no"
    /\ reused' = "up"
    /\ UNCHANGED <<sources, handles, directory, proc, member, piped, pc, child, drain, result>>

\* Tokio reaps the child of a Child that was dropped.
Orphan ==
    /\ child = "dropped" /\ proc[Leader] = "zombie"
    /\ proc' = [proc EXCEPT ![Leader] = "gone"]
    /\ UNCHANGED <<sources, handles, directory, member, piped, reused, pc, child, drain, result>>

-------------------------------------------------------------------------------
(* Launch *)

Goto(l) == pc' = l /\ UNCHANGED <<child, drain, result>>

Fail(r) ==
    /\ pc' = "done" /\ result' = r
    /\ UNCHANGED <<child, drain>>

\* The bytes behind the open handle are compared with the lock, and the handle is kept.
Verify ==
    /\ pc = "verify"
    /\ \/ path = Pinned /\ exe' = path /\ Goto("check")
       \/ Fail("launch") /\ UNCHANGED exe
    /\ UNCHANGED <<sources, auth, image, directory, kernel>>

\* The credential is looked at by its path, then opened without following a link and
\* looked at again by its handle.
CheckAuth ==
    /\ pc = "check"
    /\ IF file = "link" THEN Fail("launch") ELSE Goto("open")
    /\ UNCHANGED <<sources, handles, directory, kernel>>

OpenAuth ==
    /\ pc = "open"
    /\ IF file = "private" THEN auth' = file /\ Goto("cwd") ELSE Fail("launch") /\ UNCHANGED auth
    /\ UNCHANGED <<sources, exe, image, directory, kernel>>

MakeCwd ==
    /\ pc = "cwd"
    /\ \/ cwd' = "there" /\ Goto("provision")
       \/ Fail("launch") /\ UNCHANGED cwd
    /\ UNCHANGED <<sources, handles, copy, kernel>>

SpawnFails ==
    /\ pc' = "unlink" /\ result' = "spawn"
    /\ UNCHANGED <<child, drain>>

\* configure_environment: an error comes before, in or after the copy.
Provision ==
    /\ pc = "provision"
    /\ \/ copy' = auth /\ Goto("spawn")
       \/ copy' \in {Nothing, auth} /\ SpawnFails
    /\ UNCHANGED <<sources, handles, cwd, kernel>>

\* Mutant: the pathname is executed.
SpawnByPath ==
    /\ pc = "spawn"
    /\ \/ /\ image' = path
          /\ proc' = [proc EXCEPT ![Leader] = "up"]
          /\ member' = {Leader} /\ piped' = {Leader}
          /\ pc' = "flow" /\ child' = "held" /\ drain' = "reading" /\ UNCHANGED result
       \/ SpawnFails /\ UNCHANGED <<image, proc, member, piped>>
    /\ UNCHANGED <<sources, exe, auth, directory, reused>>

\* The leader of a new group executes the inode behind the handle.
Spawn ==
    /\ pc = "spawn"
    /\ \/ /\ image' = exe
          /\ proc' = [proc EXCEPT ![Leader] = "up"]
          /\ member' = {Leader} /\ piped' = {Leader}
          /\ pc' = "flow" /\ child' = "held" /\ drain' = "reading" /\ UNCHANGED result
       \/ SpawnFails /\ UNCHANGED <<image, proc, member, piped>>
    /\ UNCHANGED <<sources, exe, auth, directory, reused>>

-------------------------------------------------------------------------------
(* Shutdown *)

FlowEnds ==
    /\ pc = "flow"
    /\ pc' = "kill" /\ result' \in {"ok", "flow"}
    /\ UNCHANGED <<sources, handles, directory, kernel, child, drain>>

\* Mutant: the launcher alone is killed.
KillLeader ==
    /\ proc' = [proc EXCEPT ![Leader] = IF Up(Leader) THEN "dying" ELSE @]
    /\ UNCHANGED <<member, piped, reused>>

\* SIGKILL to a group reaches whoever has its number.
KillGroup ==
    /\ proc' = [p \in Proc |-> IF p \in member /\ Up(p) THEN "dying" ELSE proc[p]]
    /\ reused' = IF reused = "up" THEN "killed" ELSE reused
    /\ UNCHANGED <<member, piped>>

Kill ==
    /\ pc = "kill"
    /\ KillGroup
    /\ pc' = "wait" /\ child' = "taken"
    /\ UNCHANGED <<sources, handles, directory, drain, result>>

Reap ==
    /\ pc = "wait" /\ proc[Leader] = "zombie"
    /\ proc' = [proc EXCEPT ![Leader] = "gone"]
    /\ pc' = "join" /\ child' = "reaped"
    /\ UNCHANGED <<sources, handles, directory, member, piped, reused, drain, result>>

\* A process that can't take the signal yet is left to tokio.
WaitTimesOut ==
    /\ pc = "wait"
    /\ pc' = "join" /\ child' = "dropped"
    /\ UNCHANGED <<sources, handles, directory, kernel, drain, result>>

\* The reader comes to the end when nobody holds the pipe any more.
Drained ==
    /\ drain = "reading" /\ piped = {}
    /\ drain' = "ended"
    /\ UNCHANGED <<sources, handles, directory, kernel, pc, child, result>>

\* Mutants: the group is signalled once more; there is no time limit for the reader.
KillsAgain ==
    /\ pc = "join"
    /\ KillGroup
    /\ pc' = "unlink"
    /\ drain' = IF drain = "reading" THEN "aborted" ELSE drain
    /\ UNCHANGED <<sources, handles, directory, child, result>>

JoinsReader ==
    /\ pc = "join" /\ drain = "ended"
    /\ pc' = "unlink" /\ UNCHANGED drain
    /\ UNCHANGED <<sources, handles, directory, kernel, child, result>>

\* It is waited for, and aborted after SHUTDOWN_TIMEOUT.
Join ==
    /\ pc = "join"
    /\ pc' = "unlink"
    /\ drain' = IF drain = "reading" THEN "aborted" ELSE drain
    /\ UNCHANGED <<sources, handles, directory, kernel, child, result>>

\* Drop, at an await of the caller: the group is killed unless shutdown has done it, the Child
\* is left to tokio, and the reader is aborted unless shutdown has taken it.
Dropped ==
    /\ Deadline /\ pc \in {"flow", "wait", "join"}
    /\ IF pc = "flow" THEN KillGroup ELSE UNCHANGED kernel
    /\ child' = IF child = "reaped" THEN child ELSE "dropped"
    /\ drain' = IF drain = "reading" /\ pc # "join" THEN "aborted" ELSE drain
    /\ pc' = "dropped"
    /\ UNCHANGED <<sources, handles, directory, result>>

-------------------------------------------------------------------------------
(* The directory *)

\* An error of unlinking is ignored: the removal of the tree follows.
Unlink ==
    /\ pc = "unlink"
    /\ copy' \in {copy, Nothing}
    /\ Goto("remove")
    /\ UNCHANGED <<sources, handles, cwd, kernel>>

\* Mutant: a removal that fails is not an error.
Forgotten == result

\* The first error is kept, but that of a spawn gives way to that of the removal.
FirstError == IF result \in {"ok", "spawn"} THEN "cleanup" ELSE result

RemoveCwd ==
    /\ pc = "remove"
    /\ \/ cwd' = "gone" /\ copy' = Nothing /\ UNCHANGED result
       \/ copy' \in {copy, Nothing} /\ UNCHANGED cwd /\ result' = FirstError
    /\ pc' = "done"
    /\ UNCHANGED <<sources, handles, kernel, child, drain>>

-------------------------------------------------------------------------------
Shutdown == Kill \/ Reap \/ WaitTimesOut \/ Join \/ Unlink \/ RemoveCwd

Next ==
    \/ Verify \/ CheckAuth \/ OpenAuth \/ MakeCwd \/ Provision \/ Spawn
    \/ FlowEnds \/ Shutdown \/ Dropped \/ Drained
    \/ Replace \/ Reuse \/ Orphan
    \/ \E p \in Proc : End(p) \/ Rewrite(p) \/ Leave(p)
    \/ \E p \in Proc, q \in Descendant : Fork(p, q)

Spec == Init /\ [][Next]_vars

\* The caller is scheduled and its timers fire; a flow may take as long as it likes.
FairSpec == Spec /\ WF_vars(Shutdown)

-------------------------------------------------------------------------------
(* Properties *)

\* Once the group is killed (process.rs:241-271, 273-292), whether by shutdown or by Drop, no
\* process of it runs: none that forked meanwhile, and none whose launcher was gone already.
NoMemberSurvives ==
    pc \in {"wait", "join"} \cup Returned => \A p \in member : ~Up(p)

\* kill(-pgid) (process.rs:51-55) never reaches a group that took over the number: the leader is
\* reaped only after the last signal, even when it ended long before.
OwnGroupOnly == reused # "killed"

\* What runs is the executable that was verified (config.rs:241-327), with a copy of a credential
\* that was private when it was opened (config.rs:333-352), whatever their paths become.
RunsWhatWasVerified ==
    proc[Leader] # "none" => image = Pinned /\ auth = "private"

\* A caller that reports success, or that nothing was spawned, leaves no directory, no copy, no
\* process of the group and no reader (orchestrator.rs:245-281, 504-506).
NothingIsLeft ==
    pc = "done" /\ result \in {"ok", "spawn"} =>
        /\ cwd = "gone" /\ copy = Nothing
        /\ \A p \in member : ~Up(p)
        /\ drain # "reading"

\* Cleanup never hangs (process.rs:23-25): neither on a process that does not take the signal
\* nor on one outside the group that holds the pipe.
ShutdownEnds == pc \in {"kill", "wait", "join"} \cup Cleaning ~> pc \in Returned
===============================================================================
