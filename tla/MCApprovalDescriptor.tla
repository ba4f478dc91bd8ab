-------------------------- MODULE MCApprovalDescriptor --------------------------
EXTENDS ApprovalDescriptor, TLC

CONSTANTS a, b, red, long

MCBytes == (a :> 1) @@ (b :> 2) @@ (red :> 1) @@ (long :> 4)

SeqsOf(S, n) == UNION {[1 .. k -> S] : k \in 0 .. n}

F == {a, red, Wrong, Absent}
G == {b, long, Wrong, Absent}

CommandExecutions ==
    [method : {"commandExecution"}, cwd : F, reason : F, extension : BOOLEAN, command : G,
     environment : F, amendment : BOOLEAN,
     network : {Absent, Wrong} \cup [host : {b, red}, protocol : {"http", "socks5Tcp"}]]

ExecCommands ==
    [method : {"execCommand"}, cwd : F, reason : {a, red}, extension : BOOLEAN,
     command : {Wrong} \cup SeqsOf({a, b, red, Wrong}, 3)]

FileChanges == [method : {"fileChange"}, cwd : F, reason : F, extension : BOOLEAN, root : G]

\* One change of any kind, or up to three of a few kinds.
AnyChange ==
    {Wrong} \cup [type : {"add", "update", "other"}, text : G, move : F, extension : BOOLEAN]
FewChanges ==
    {Wrong} \cup [type : {"add", "update"}, text : {a, b, long}, move : {Absent}, extension : {FALSE}]
Changes ==
    {Wrong} \cup SeqsOf([path : {a, red}, change : AnyChange], 1)
            \cup SeqsOf([path : {b}, change : FewChanges], 3)
Patches ==
    [method : {"applyPatch"}, cwd : {a, Absent}, reason : {Absent}, extension : BOOLEAN, root : G,
     changes : Changes]

\* One entry of any kind, or up to three lists of a few kinds.
AnyEntry ==
    [access : {"read", "other"}, kind : {"path", "root", "project_roots", "unknown", "other"},
     path : F \cup {long}, subpath : {b, red, long, Absent}, extension : BOOLEAN]
FewEntries ==
    [access : {"write"}, kind : {"path"}, path : {a, red}, subpath : {Absent}, extension : {FALSE}]
Profiles ==
    [malformed : BOOLEAN, entries : {Absent, Wrong} \cup SeqsOf(AnyEntry, 1), read : {Absent},
     write : {Absent}, network : {TRUE}, depth : {Absent, 1}]
    \cup [malformed : {FALSE}, entries : {Absent} \cup SeqsOf(FewEntries, 3),
          read : {Absent, Wrong} \cup SeqsOf({a, Wrong}, 2), write : {Absent} \cup SeqsOf({b, long}, 2),
          network : {Absent, Wrong, FALSE}, depth : {Absent, Wrong}]
Permissions ==
    [method : {"permissions"}, cwd : {a, red}, reason : {Absent}, extension : {FALSE}, environment : {Absent},
     permissions : Profiles]
    \cup [method : {"permissions"}, cwd : F, reason : F, extension : BOOLEAN, environment : G,
          permissions : {Absent, Wrong, EmptyProfile}]

MCRequests == CommandExecutions \cup ExecCommands \cup FileChanges \cup Patches \cup Permissions
===============================================================================
