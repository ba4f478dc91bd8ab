---------------------------- MODULE OwnerViewProofs ----------------------------
(***************************************************************************)
(* Proofs about what the clients of the owner are given: the descriptors    *)
(* and answers of ApprovalDescriptor, and the events of EventReplay.        *)
(*                                                                          *)
(* An approval that is granted was shown as it is, and the limits on what   *)
(* is shown hold and refuse nothing ordinary, for every set of texts, of    *)
(* requests and of limits.  The counters of the retained events are their   *)
(* sizes, and a subscriber receives every event once, in order, and misses  *)
(* only what lag lost or a limit evicted, for any number of turns,          *)
(* subscribers and events and any limits.                                   *)
(***************************************************************************)
EXTENDS ApprovalDescriptor, EventReplay, ListsProofs, SequenceTheorems, TLAPS

\* What an answer to a reviewable request grants.
Whole(r) == Effect(r) \cup (IF r.method = "permissions" THEN OfProfile(r.permissions) ELSE {})

LEMMA ExactIsShown ==
    ASSUME NEW f, f \in Exact \cup {Absent}
    PROVE  Shown(f) = f
  BY DescriptorAssumption DEF Shown, Sanitised, Text, Short

\* A descriptor of nothing but a directory and changes displays these.
LEMMA OthersAreAbsent ==
    ASSUME NEW d, d.command = Absent, d.environment = Absent, d.network = Absent,
           d.arguments = <<>>, OfPermissions(d.permissions) = {}
    PROVE  Displayed(d) = Given("cwd", d.cwd) \cup {OfChange(d.changes[i]) : i \in DOMAIN d.changes}
  <1>1. Given("command", d.command) = {} /\ Given("environment", d.environment) = {}
        /\ Given("network", d.network) = {}
    BY DEF Given
  <1>2. {<<"argument", i, d.arguments[i]>> : i \in DOMAIN d.arguments} = {}
    OBVIOUS
  <1> QED BY ONLY <1>1, <1>2, OfPermissions(d.permissions) = {}, Zenon DEF Displayed

LEMMA FunctionIsSequence ==
    ASSUME NEW S, NEW k \in Nat, NEW g \in [1 .. k -> S]
    PROVE  g \in Seq(S)
  OBVIOUS

LEMMA CommandExecutionIsShown ==
    ASSUME NEW r \in Request, r.method = "commandExecution", DescribeCommandExecution(r).reviewable
    PROVE  Whole(r) = Displayed(DescribeCommandExecution(r))
  <1> DEFINE d == DescribeCommandExecution(r)
  <1>1. /\ r.cwd \in Exact \cup {Absent} /\ ~r.extension
        /\ r.command \in Exact /\ r.environment \in Exact \cup {Absent}
        /\ NetworkReviewable(r.network) /\ ~r.amendment
    BY DEF DescribeCommandExecution, Described, Reviewable, Classified
  <1>2. ShownNetwork(r.network) = r.network
    <2>1. CASE r.network = Absent
      BY <2>1 DEF ShownNetwork
    <2>2. CASE r.network # Absent
      <3>1. r.network \in Network /\ r.network.host \in Exact /\ r.network # Wrong
        BY <1>1, <2>2 DEF NetworkReviewable, Request
      <3> QED BY <2>2, <3>1 DEF ShownNetwork, Network, Sanitised
    <2> QED BY <2>1, <2>2
  <1>3. /\ d.cwd = r.cwd /\ d.command = r.command /\ d.environment = r.environment
        /\ d.network = r.network /\ d.arguments = <<>> /\ d.changes = <<>>
        /\ d.permissions = NoPermissions
    BY <1>1, <1>2, ExactIsShown DEF DescribeCommandExecution, Described
  <1>4. OfPermissions(d.permissions) = {}
    BY <1>3 DEF OfPermissions, NoPermissions, Given
  <1>5. Displayed(d) = Given("cwd", r.cwd) \cup Given("command", r.command)
                       \cup Given("environment", r.environment) \cup Given("network", r.network)
    BY <1>3, <1>4 DEF Displayed
  <1>6. Whole(r) = Given("cwd", r.cwd) \cup Given("command", r.command)
                   \cup Given("environment", r.environment) \cup Given("network", r.network)
    BY <1>1 DEF Whole, Effect, Unknown
  <1> QED BY <1>5, <1>6

LEMMA ExecCommandIsShown ==
    ASSUME NEW r \in Request, r.method = "execCommand", DescribeExecCommand(r).reviewable
    PROVE  Whole(r) = Displayed(DescribeExecCommand(r))
  <1> DEFINE d == DescribeExecCommand(r)
  <1>1. /\ r.command # Wrong /\ \A i \in DOMAIN r.command : r.command[i] \in Exact
        /\ r.cwd \in Exact \cup {Absent} /\ ~r.extension
    BY DEF DescribeExecCommand, Described, Reviewable, Classified
  <1>2. /\ d.cwd = r.cwd /\ d.command = Absent /\ d.environment = Absent /\ d.network = Absent
        /\ d.changes = <<>> /\ d.permissions = NoPermissions
        /\ d.arguments = [i \in DOMAIN r.command |-> Sanitised(r.command[i])]
    BY <1>1, ExactIsShown DEF DescribeExecCommand, Described, Text, Short
  <1>3. \A i \in DOMAIN r.command : d.arguments[i] = r.command[i]
    BY <1>1, <1>2 DEF Sanitised
  <1>4. OfPermissions(d.permissions) = {}
    BY <1>2 DEF OfPermissions, NoPermissions, Given
  <1>5. Displayed(d) = Given("cwd", r.cwd)
                       \cup {<<"argument", i, d.arguments[i]>> : i \in DOMAIN d.arguments}
    BY <1>2, <1>4 DEF Displayed, Given
  <1>6. DOMAIN d.arguments = DOMAIN r.command
    BY <1>2
  <1>7. {<<"argument", i, d.arguments[i]>> : i \in DOMAIN d.arguments}
            = {<<"argument", i, r.command[i]>> : i \in DOMAIN r.command}
    BY <1>3, <1>6
  <1>8. Whole(r) = Given("cwd", r.cwd)
            \cup {<<"argument", i, r.command[i]>> : i \in DOMAIN r.command}
    BY <1>1 DEF Whole, Effect, Unknown
  <1> QED BY <1>5, <1>7, <1>8

-------------------------------------------------------------------------------
\* A change that can be reviewed is shown whole.
LEMMA ChangeIsShown ==
    ASSUME NEW cs \in Seq([path : Text, change : {Wrong} \cup Change]), NEW i \in DOMAIN cs,
           ChangeReviewable(cs, i)
    PROVE  OfChange(ShownChange(cs, i)) = <<"change", cs[i].path, cs[i].change>>
  <1> DEFINE c == cs[i].change
  <1>1. /\ Operation(c) # "unknown" /\ cs[i].path \in Exact /\ Fits(cs, i) /\ ~c.extension
        /\ IF c.type = "update" THEN Reviewable(c.move) ELSE c.move = Absent
    BY DEF ChangeReviewable
  <1>2. cs[i] \in [path : Text, change : {Wrong} \cup Change]
    <2> DEFINE S == [path : Text, change : {Wrong} \cup Change]
    <2>1. cs \in Seq(S) /\ i \in DOMAIN cs
      OBVIOUS
    <2> HIDE DEF S
    <2>2. i \in 1 .. Len(cs)
      BY <2>1
    <2>3. cs[i] \in S
      BY <2>1, <2>2, ElementOfSeq
    <2> QED BY <2>3 DEF S
  <1>3. c # Wrong /\ c.type \in {"add", "update", "delete"} /\ Operation(c) = c.type
    BY <1>1 DEF Operation
  <1>4. c \in Change
    BY <1>2, <1>3
  <1>5. (IF Operation(c) = "update" THEN Shown(c.move) ELSE Absent) = c.move
    BY <1>1, <1>3, ExactIsShown DEF Reviewable
  <1>6. ShownChange(cs, i)
            = [path |-> cs[i].path, operation |-> c.type, text |-> c.text, move |-> c.move]
    BY <1>1, <1>3, <1>5 DEF ShownChange, Sanitised
  <1>7. c = [type |-> c.type, text |-> c.text, move |-> c.move, extension |-> FALSE]
    BY <1>1, <1>4 DEF Change
  <1>8. c.type # "grant_root"
    BY <1>3
  <1> HIDE DEF c
  <1>9. OfChange(ShownChange(cs, i))
          = <<"change", cs[i].path,
              [type |-> c.type, text |-> c.text, move |-> c.move, extension |-> FALSE]>>
    <2> DEFINE e == [path |-> cs[i].path, operation |-> c.type, text |-> c.text, move |-> c.move]
    <2>1. e.path = cs[i].path /\ e.operation = c.type /\ e.text = c.text /\ e.move = c.move
      OBVIOUS
    <2>2. ShownChange(cs, i) = e
      BY <1>6
    <2> HIDE DEF e
    <2>3. OfChange(e)
            = <<"change", e.path,
                [type |-> e.operation, text |-> e.text, move |-> e.move, extension |-> FALSE]>>
      BY <1>8, <2>1, Zenon DEF OfChange
    <2> QED BY <2>1, <2>2, <2>3
  <1>10. OfChange(ShownChange(cs, i)) = <<"change", cs[i].path, c>>
    BY <1>7, <1>9
  <1> QED BY <1>10 DEF c

LEMMA PatchIsShown ==
    ASSUME NEW r \in Request, r.method = "applyPatch", DescribePatch(r).reviewable
    PROVE  Whole(r) = Displayed(DescribePatch(r))
  <1> DEFINE d == DescribePatch(r)
             shown == [i \in 1 .. Len(r.changes) |-> ShownChange(r.changes, i)]
             n == IF Len(r.changes) <= ListCap THEN Len(r.changes) ELSE ListCap
  <1>1. r.changes # Wrong
    BY DEF DescribePatch
  <1>2. r.changes \in Seq([path : Text, change : {Wrong} \cup Change])
    BY <1>1 DEF Request
  <1>3. /\ Len(r.changes) <= ListCap /\ r.cwd \in Exact \cup {Absent} /\ ~r.extension
        /\ r.root \in Exact \cup {Absent}
        /\ \A i \in 1 .. n : ChangeReviewable(r.changes, i)
    BY <1>1 DEF DescribePatch, Described, Reviewable, Classified
  <1>4. n = Len(r.changes)
    BY <1>3
  <1>5. /\ d.cwd = r.cwd /\ d.command = Absent /\ d.environment = Absent /\ d.network = Absent
        /\ d.arguments = <<>> /\ d.permissions = NoPermissions
        /\ d.changes = Root(r) \o shown
    BY <1>1, <1>3, <1>4, ExactIsShown DEF DescribePatch, Described
  <1>6. \A i \in 1 .. Len(r.changes) :
          OfChange(shown[i]) = <<"change", r.changes[i].path, r.changes[i].change>>
    <2>1. DOMAIN r.changes = 1 .. Len(r.changes)
      BY <1>2
    <2>2. ASSUME NEW i \in 1 .. Len(r.changes)
          PROVE  OfChange(ShownChange(r.changes, i))
                     = <<"change", r.changes[i].path, r.changes[i].change>>
      BY <1>2, <1>3, <1>4, <2>1, ChangeIsShown
    <2>3. \A i \in 1 .. Len(r.changes) : shown[i] = ShownChange(r.changes, i)
      OBVIOUS
    <2> HIDE DEF shown
    <2> QED BY <2>2, <2>3
  <1>7. {OfChange(d.changes[i]) : i \in DOMAIN d.changes}
            = Given("root", r.root)
              \cup {<<"change", r.changes[i].path, r.changes[i].change>> : i \in DOMAIN r.changes}
    <2> DEFINE S == Range(Root(r)) \cup Range(shown)
    <2>1. /\ DOMAIN r.changes = 1 .. Len(r.changes) /\ Len(r.changes) \in Nat
          /\ DOMAIN shown = 1 .. Len(r.changes)
      BY <1>2
    <2>2. shown \in Seq(S)
      <3>1. shown = [i \in 1 .. Len(r.changes) |-> shown[i]]
        OBVIOUS
      <3> HIDE DEF shown
      <3>2. shown \in [1 .. Len(r.changes) -> S]
        BY <2>1, <3>1 DEF Range
      <3> HIDE DEF S
      <3> QED BY <2>1, <3>2
    <2>3. /\ Root(r) \in Seq(S)
          /\ {OfChange(e) : e \in Range(Root(r))} = Given("root", r.root)
      <3> HIDE DEF shown
      <3>1. CASE r.root = Absent
        BY <3>1, DescriptorAssumption DEF Root, Given, Range
      <3>2. CASE r.root \in Exact
        <4> DEFINE root == [path |-> r.root, operation |-> "grant_root",
                             text |-> Absent, move |-> Absent]
        <4>1. Root(r) = <<root>> /\ Given("root", r.root) = {<<"root", r.root>>}
          BY <3>2, DescriptorAssumption DEF Root, Given, Text, Short, Sanitised
        <4>2. OfChange(root) = <<"root", r.root>>
          BY DEF OfChange
        <4> HIDE DEF root
        <4>3. Range(Root(r)) = {root}
          BY <4>1 DEF Range
        <4> QED BY <4>1, <4>2, <4>3
      <3> QED BY <3>1, <3>2, <1>3
    <2>4. Range(d.changes) = S
      <3> HIDE DEF shown, S
      <3>1. Range(Root(r) \o shown) = Range(Root(r)) \cup Range(shown)
        BY <2>2, <2>3, RangeConcatenation
      <3> QED BY <3>1, <1>5 DEF S
    <2>5. {OfChange(e) : e \in Range(shown)}
            = {<<"change", r.changes[i].path, r.changes[i].change>> : i \in DOMAIN r.changes}
      <3> HIDE DEF shown
      <3> QED BY <2>1, <1>6 DEF Range
    <2> HIDE DEF shown, d
    <2>6. {OfChange(d.changes[i]) : i \in DOMAIN d.changes} = {OfChange(e) : e \in Range(d.changes)}
      BY DEF Range
    <2> QED BY <2>3, <2>4, <2>5, <2>6
  <1>8. OfPermissions(d.permissions) = {}
    BY <1>5 DEF OfPermissions, NoPermissions, Given
  <1>9. Displayed(d) = Given("cwd", r.cwd) \cup {OfChange(d.changes[i]) : i \in DOMAIN d.changes}
    <2> HIDE DEF d, shown, n
    <2> QED BY <1>5, <1>8, OthersAreAbsent
  <1>10. Whole(r) = Given("cwd", r.cwd) \cup Given("root", r.root)
                    \cup {<<"change", r.changes[i].path, r.changes[i].change>> :
                             i \in DOMAIN r.changes}
    BY <1>1, <1>3 DEF Whole, Effect, Unknown
  <1> QED BY <1>7, <1>9, <1>10

-------------------------------------------------------------------------------
\* The lists of a valid profile that can be reviewed are shown as they are.
LEMMA ProfileIsShown ==
    ASSUME NEW p \in Profile, ValidProfile(p), ProfileReviewable(p)
    PROVE  OfPermissions(ShownProfile(p)) = OfProfile(p)
  <1> DEFINE Line(e) == <<"file", e.access, e.kind, e.path, e.subpath>>
             E == [i \in DOMAIN Listed(p.entries) |-> ShownEntry(p.entries[i])]
             R == [i \in DOMAIN Listed(p.read) |-> PathEntry("read", Sanitised(p.read[i]))]
             W == [i \in DOMAIN Listed(p.write) |-> PathEntry("write", Sanitised(p.write[i]))]
  <1>1. /\ Listed(p.entries) \in Seq(Entry) /\ Listed(p.read) \in Seq(Field)
        /\ Listed(p.write) \in Seq(Field)
    BY DEF Profile, List, Listed
  <1>2. /\ \A i \in DOMAIN Listed(p.entries) :
             p.entries[i].path \in Exact \cup {Absent} 
             /\ p.entries[i].subpath \in Exact \cup {Absent}
        /\ \A i \in DOMAIN Listed(p.read) : p.read[i] \in Exact
        /\ \A i \in DOMAIN Listed(p.write) : p.write[i] \in Exact
    BY DEF ProfileReviewable, Reviewable
  <1>3. \A i \in DOMAIN Listed(p.entries) :
            Line(E[i]) = <<"file", p.entries[i].access, p.entries[i].kind,
                 p.entries[i].path, p.entries[i].subpath>>
    <2> TAKE i \in DOMAIN Listed(p.entries)
    <2>1. /\ Shown(p.entries[i].path) = p.entries[i].path
          /\ Shown(p.entries[i].subpath) = p.entries[i].subpath
      BY <1>2, ExactIsShown
    <2>2. E[i] = [access |-> p.entries[i].access, kind |-> p.entries[i].kind,
                  path |-> p.entries[i].path, subpath |-> p.entries[i].subpath]
      BY <2>1 DEF ShownEntry
    <2> HIDE DEF E
    <2> QED BY <2>2
  <1>4. \A i \in DOMAIN Listed(p.read) : Line(R[i]) = <<"file", "read", "path", p.read[i], Absent>>
    <2> TAKE i \in DOMAIN Listed(p.read)
    <2>1. R[i] = [access |-> "read", kind |-> "path", path |-> p.read[i], subpath |-> Absent]
      BY <1>2 DEF PathEntry, Sanitised
    <2> HIDE DEF R
    <2> QED BY <2>1
  <1>5. \A i \in DOMAIN Listed(p.write) :
          Line(W[i]) = <<"file", "write", "path", p.write[i], Absent>>
    <2> TAKE i \in DOMAIN Listed(p.write)
    <2>1. W[i] = [access |-> "write", kind |-> "path", path |-> p.write[i], subpath |-> Absent]
      BY <1>2 DEF PathEntry, Sanitised
    <2> HIDE DEF W
    <2> QED BY <2>1
  <1> DEFINE S == Range(E) \cup Range(R) \cup Range(W)
  <1>6. E \in Seq(S) /\ R \in Seq(S) /\ W \in Seq(S)
    <2>1. /\ DOMAIN E = 1 .. Len(Listed(p.entries)) /\ Len(Listed(p.entries)) \in Nat
          /\ DOMAIN R = 1 .. Len(Listed(p.read)) /\ Len(Listed(p.read)) \in Nat
          /\ DOMAIN W = 1 .. Len(Listed(p.write)) /\ Len(Listed(p.write)) \in Nat
      BY <1>1
    <2>2. /\ E = [i \in DOMAIN E |-> E[i]] /\ R = [i \in DOMAIN R |-> R[i]]
          /\ W = [i \in DOMAIN W |-> W[i]]
      OBVIOUS
    <2> HIDE DEF E, R, W
    <2>3. (\A i \in DOMAIN E : E[i] \in S) /\ (\A i \in DOMAIN R : R[i] \in S)
          /\ (\A i \in DOMAIN W : W[i] \in S)
      BY Zenon DEF Range
    <2> HIDE DEF S
    <2>4. E \in [1 .. Len(Listed(p.entries)) -> S]
      BY <2>1, <2>2, <2>3
    <2>5. R \in [1 .. Len(Listed(p.read)) -> S]
      BY <2>1, <2>2, <2>3
    <2>6. W \in [1 .. Len(Listed(p.write)) -> S]
      BY <2>1, <2>2, <2>3
    <2> QED BY ONLY <2>1, <2>4, <2>5, <2>6, FunctionIsSequence
  <1>7. /\ DOMAIN E = DOMAIN Listed(p.entries) /\ DOMAIN R = DOMAIN Listed(p.read)
        /\ DOMAIN W = DOMAIN Listed(p.write)
    OBVIOUS
  <1>8. /\ ShownProfile(p).files = E \o R \o W /\ ShownProfile(p).network = p.network
        /\ ShownProfile(p).depth = p.depth
    BY DEF ShownProfile
  <1> DEFINE f == E \o R \o W
  <1> HIDE DEF E, R, W, f
  <1>9. Range(f) = S
    <2> DEFINE g == E \o R
    <2> HIDE DEF S
    <2>1. g \in Seq(S) /\ Range(g) = Range(E) \cup Range(R)
      BY ONLY <1>6, ConcatProperties, RangeConcatenation
    <2> HIDE DEF g
    <2>2. Range(g \o W) = Range(g) \cup Range(W)
      BY ONLY <1>6, <2>1, RangeConcatenation
    <2> QED BY <2>1, <2>2 DEF S, f, g
  <1>10. {Line(f[i]) : i \in DOMAIN f} = {Line(e) : e \in S}
    BY <1>9 DEF Range
  <1>11. {Line(e) : e \in S} = {Line(E[i]) : i \in DOMAIN E} \cup {Line(R[i]) : i \in DOMAIN R}
                               \cup {Line(W[i]) : i \in DOMAIN W}
    BY DEF Range
  <1>12. OfPermissions(ShownProfile(p)) = {Line(f[i]) : i \in DOMAIN f}
             \cup Given("network", p.network) \cup Given("depth", p.depth)
    BY <1>8 DEF OfPermissions, f
  <1>13. OfProfile(p) = {Line(E[i]) : i \in DOMAIN E} \cup {Line(R[i]) : i \in DOMAIN R}
                        \cup {Line(W[i]) : i \in DOMAIN W} \cup Given("network", p.network)
                            \cup Given("depth", p.depth)
    <2>1. {Line(E[i]) : i \in DOMAIN E}
            = {<<"file", p.entries[i].access, p.entries[i].kind,
                 p.entries[i].path, p.entries[i].subpath>>
                : i \in DOMAIN Listed(p.entries)}
      BY <1>3, <1>7
    <2>2. {Line(R[i]) : i \in DOMAIN R}
              = {<<"file", "read", "path", p.read[i], Absent>> : i \in DOMAIN Listed(p.read)}
      BY <1>4, <1>7
    <2>3. {Line(W[i]) : i \in DOMAIN W}
              = {<<"file", "write", "path", p.write[i], Absent>> : i \in DOMAIN Listed(p.write)}
      BY <1>5, <1>7
    <2> QED BY <2>1, <2>2, <2>3 DEF OfProfile
  <1> QED BY <1>10, <1>11, <1>12, <1>13

LEMMA PermissionsAreShown ==
    ASSUME NEW r \in Request, r.method = "permissions", DescribePermissions(r).reviewable
    PROVE  Whole(r) = Displayed(DescribePermissions(r)) /\ ValidProfile(r.permissions)
  <1> DEFINE d == DescribePermissions(r)
  <1>1. /\ r.cwd \in Exact \cup {Absent} /\ ~r.extension /\ r.environment \in Exact \cup {Absent}
        /\ ValidProfile(r.permissions) /\ ProfileReviewable(r.permissions)
    BY DEF DescribePermissions, Described, Reviewable, Classified
  <1>2. r.permissions \in Profile
    BY <1>1 DEF Request, ValidProfile
  <1>3. /\ d.cwd = r.cwd /\ d.command = Absent /\ d.environment = r.environment
        /\ d.network = Absent
        /\ d.arguments = <<>> /\ d.changes = <<>> /\ d.permissions = ShownProfile(r.permissions)
    BY <1>1, ExactIsShown DEF DescribePermissions, Described
  <1>4. OfPermissions(d.permissions) = OfProfile(r.permissions)
    BY <1>1, <1>2, <1>3, ProfileIsShown
  <1>5. Displayed(d) = Given("cwd", r.cwd) \cup Given("environment", r.environment)
            \cup OfProfile(r.permissions)
    BY <1>3, <1>4 DEF Displayed, Given
  <1>6. Whole(r) = Given("cwd", r.cwd) \cup Given("environment", r.environment)
            \cup OfProfile(r.permissions)
    BY <1>1 DEF Whole, Effect, Unknown
  <1> QED BY <1>1, <1>5, <1>6

LEMMA ReviewableIsShown ==
    ASSUME NEW r \in Request, Describe(r).reviewable
    PROVE  /\ Whole(r) = Displayed(Describe(r))
           /\ r.method = "permissions" => ValidProfile(r.permissions)
  <1>1. r.method \in {"commandExecution", "execCommand", "applyPatch",
                         "fileChange", "permissions"}
    BY DEF Request
  <1>2. CASE r.method = "commandExecution"
    <2>1. Describe(r) = DescribeCommandExecution(r)
      BY <1>2 DEF Describe
    <2> QED BY <1>2, <2>1, CommandExecutionIsShown
  <1>3. CASE r.method = "execCommand"
    <2>1. Describe(r) = DescribeExecCommand(r)
      BY <1>3 DEF Describe
    <2> QED BY <1>3, <2>1, ExecCommandIsShown
  <1>4. CASE r.method = "applyPatch"
    <2>1. Describe(r) = DescribePatch(r)
      BY <1>4 DEF Describe
    <2> QED BY <1>4, <2>1, PatchIsShown
  <1>5. CASE r.method = "fileChange"
    <2>1. Describe(r) = DescribeFileChange(r)
      BY <1>5 DEF Describe
    <2>2. ~DescribeFileChange(r).reviewable
      BY DEF DescribeFileChange, Described
    <2> QED BY <2>1, <2>2
  <1>6. CASE r.method = "permissions"
    <2>1. Describe(r) = DescribePermissions(r)
      BY <1>6 DEF Describe
    <2> QED BY <1>6, <2>1, PermissionsAreShown
  <1> QED BY <1>1, <1>2, <1>3, <1>4, <1>5, <1>6

-------------------------------------------------------------------------------
\* Each step of the handler uses what the one before has left.
IInv ==
    /\ request \in Request
    /\ descriptor # Absent
           => descriptor = Describe(request) /\ allowed = Describe(request).reviewable
    /\ decision # Absent => descriptor # Absent
    /\ response # Absent => decision # Absent /\ response = Response(request, Effective)

LEMMA IInvAlways == Spec => []IInv
  <1>1. Init => IInv
    BY RequestsAssumption DEF Init, Receive, IInv
  <1>2. ASSUME IInv, [Next]_vars PROVE IInv'
    <2>1. CASE Show
      BY <1>2, <2>1 DEF IInv, Show
    <2>2. CASE Decide
      BY <1>2, <2>2 DEF IInv, Decide
    <2>3. CASE Respond
      BY <1>2, <2>3 DEF IInv, Respond, Effective
    <2>4. CASE UNCHANGED vars
      BY <1>2, <2>4 DEF IInv, vars, Effective
    <2> QED BY <1>2, <2>1, <2>2, <2>3, <2>4 DEF Next
  <1> QED BY <1>1, <1>2, PTL DEF Spec

\* What an answer grants is what the owner was shown and allowed (client.rs:478-688, 2043-2088),
\* for every request there is.
THEOREM GrantsAreInformed == Spec => []InformedGrant
  <1>1. IInv => InformedGrant
    <2> SUFFICES ASSUME IInv, response # Absent, Granted(request, response) # {}
                 PROVE  /\ decision = "allow" /\ allowed
                        /\ Granted(request, response) = Displayed(descriptor)
      BY DEF InformedGrant
    <2>1. /\ response = Response(request, Effective) /\ request \in Request
          /\ descriptor = Describe(request) /\ allowed = Describe(request).reviewable
      BY DEF IInv
    <2>2. Effective = "allow"
      <3> SUFFICES ASSUME Effective # "allow" PROVE FALSE
        OBVIOUS
      <3>1. CASE request.method = "permissions"
        <4>1. response.profile = EmptyProfile
          BY <2>1, <3>1 DEF Response
        <4> QED BY <3>1, <4>1 DEF Granted
      <3>2. CASE request.method # "permissions"
        <4>1. response.decision # "accept"
          BY <2>1, <3>2 DEF Response
        <4> QED BY <3>2, <4>1 DEF Granted
      <3> QED BY <3>1, <3>2
    <2>3. decision = "allow" /\ allowed
      BY <2>2 DEF Effective
    <2>4. /\ Whole(request) = Displayed(descriptor)
          /\ request.method = "permissions" => ValidProfile(request.permissions)
      BY <2>1, <2>3, ReviewableIsShown
    <2>5. Granted(request, response) = Whole(request)
      <3>1. CASE request.method = "permissions"
        <4>1. response.profile = request.permissions
          BY <2>1, <2>2, <2>4, <3>1 DEF Response
        <4> QED BY <3>1, <4>1 DEF Granted, Whole
      <3>2. CASE request.method # "permissions"
        <4> QED BY <3>2 DEF Granted, Whole
      <3> QED BY <3>1, <3>2
    <2> QED BY <2>3, <2>4, <2>5
  <1> QED BY <1>1, IInvAlways, PTL
-------------------------------------------------------------------------------
(* The limits *)

PatchChange == [path : Text, change : {Wrong} \cup Change]

\* The budget is used step by step, and never more than there is.
LEMMA UsedSteps ==
    ASSUME NEW cs \in Seq(PatchChange)
    PROVE  /\ Used(cs, 0) = 0
           /\ \A j \in 1 .. Len(cs) :
                 Used(cs, j) = Spent(Used(cs, j - 1), TextBytes(cs[j].change))
           /\ \A j \in 0 .. Len(cs) : Used(cs, j) \in 0 .. PatchCap
           /\ \A j \in 1 .. Len(cs) : TextBytes(cs[j].change) \in Nat
  <1> DEFINE n == Len(cs)
             D == 0 .. PatchCap
             b == [j \in 1 .. n |-> TextBytes(cs[j].change)]
             h == [q \in (1 .. n) \X D |-> Spent(q[2], b[q[1]])]
             Steps(f) ==
                 f = [j \in 0 .. n |->
                        IF j = 0 THEN 0 ELSE Spent(f[j - 1], TextBytes(cs[j].change))]
             u == CHOOSE f : Steps(f)
  <1>1. n \in Nat /\ 0 \in D
    BY DescriptorAssumption
  <1>2. ASSUME NEW j \in 1 .. n PROVE TextBytes(cs[j].change) \in Nat
    BY DescriptorAssumption DEF TextBytes
  <1>3. \A j \in 1 .. n : b[j] = TextBytes(cs[j].change) /\ b[j] \in Nat
    BY <1>2
  <1>4. \A i \in Nat, x \in D : Spent(x, i) \in D
    BY DescriptorAssumption DEF Spent
  <1> HIDE DEF D, b, n
  <1>5. h \in [(1 .. n) \X D -> D] /\ \A j \in 1 .. n, x \in D : h[<<j, x>>] = Spent(x, b[j])
    BY <1>3, <1>4
  <1> HIDE DEF h
  <1>6. PICK f : Stepwise(f, n, D, h, 0)
    <2> HIDE DEF u, Steps
    <2> QED BY <1>1, <1>5, Recursion
  <1>7. \A j \in 1 .. n : j - 1 \in 0 .. n /\ j \in 0 .. n /\ j # 0
    BY <1>1
  <1>8. ASSUME NEW j \in 1 .. n PROVE f[j] = Spent(f[j - 1], TextBytes(cs[j].change))
    <2>1. f[j - 1] \in D
      BY <1>6, <1>7 DEF Stepwise
    <2>2. f[j] = h[<<j, f[j - 1]>>]
      BY <1>6 DEF Stepwise
    <2>3. h[<<j, f[j - 1]>>] = Spent(f[j - 1], b[j])
      BY <1>5, <2>1
    <2> QED BY <1>3, <2>2, <2>3, Zenon
  <1>9. Steps(f)
    <2>1. f = [j \in 0 .. n |-> f[j]]
      BY <1>6 DEF Stepwise
    <2>2. \A j \in 0 .. n : j = 0 \/ j \in 1 .. n
      BY <1>1
    <2>3. \A j \in 0 .. n : f[j] = IF j = 0 THEN 0 ELSE Spent(f[j - 1], TextBytes(cs[j].change))
      BY <1>6, <1>8, <2>2 DEF Stepwise
    <2> QED BY <2>1, <2>3, Zenon
  <1>10. Steps(u)
    BY <1>9, Zenon
  <1>11. \A i : Used(cs, i) = u[i]
    BY Zenon DEF Used, n
  <1> HIDE DEF u
  <1>12. \A j \in 0 .. n : u[j] = IF j = 0 THEN 0 ELSE Spent(u[j - 1], TextBytes(cs[j].change))
    BY <1>10, Zenon
  <1> DEFINE T == {k \in Nat : k \in 0 .. n => u[k] \in D}
  <1>13. u[0] = 0 /\ \A j \in 1 .. n : u[j] = Spent(u[j - 1], TextBytes(cs[j].change))
    BY <1>1, <1>7, <1>12
  <1>14. 0 \in T
    BY <1>1, <1>13
  <1>15. ASSUME NEW k \in Nat, k \in T PROVE k + 1 \in T
    <2> SUFFICES ASSUME k + 1 \in 0 .. n PROVE u[k + 1] \in D
      OBVIOUS
    <2>1. k + 1 \in 1 .. n /\ k \in 0 .. n /\ (k + 1) - 1 = k
      BY <1>1
    <2>2. u[k] \in D
      BY <1>15, <2>1
    <2>3. u[k + 1] = Spent(u[k], TextBytes(cs[k + 1].change))
      BY <1>13, <2>1
    <2> QED BY <1>2, <1>4, <2>1, <2>2, <2>3
  <1>16. Nat \subseteq T
    <2> HIDE DEF T
    <2> QED BY <1>14, <1>15, Induction
  <1>17. \A j \in 0 .. n : u[j] \in D
    BY <1>1, <1>16
  <1> QED BY <1>2, <1>11, <1>13, <1>17 DEF n, D

\* The bytes that are shown of a change.
ShownSize(c) == IF c.text = Absent THEN 0 ELSE Bytes[c.text]

\* A change is shown with the bytes it uses.
LEMMA ShownSizeIsUsed ==
    ASSUME NEW cs \in Seq(PatchChange), NEW i \in 1 .. Len(cs)
    PROVE  /\ ShownSize(ShownChange(cs, i)) \in Nat
           /\ Used(cs, i) = Used(cs, i - 1) + ShownSize(ShownChange(cs, i))
  <1> DEFINE c == cs[i].change
             v == Used(cs, i - 1)
  <1>1. /\ v \in Nat /\ Used(cs, i) = Spent(v, TextBytes(c)) /\ TextBytes(c) \in Nat
        /\ PatchCap \in Nat
    <2>1. i - 1 \in 0 .. Len(cs)
      OBVIOUS
    <2> QED BY <2>1, UsedSteps, DescriptorAssumption
  <1>2. ShownChange(cs, i).text = IF Operation(c) # "unknown" /\ Fits(cs, i) THEN c.text ELSE Absent
    BY DEF ShownChange
  <1>3. Fits(cs, i) <=> c.text \in Text /\ v + Bytes[c.text] <= PatchCap
    BY DEF Fits
  <1>4. Absent \notin Text
    BY DescriptorAssumption
  <1> HIDE DEF c, v
  <1>5. CASE Operation(c) # "unknown" /\ c.text \in Text
    <2>1. TextBytes(c) = Bytes[c.text]
      BY <1>5 DEF TextBytes
    <2>2. CASE v + Bytes[c.text] <= PatchCap
      <3>1. ShownSize(ShownChange(cs, i)) = Bytes[c.text]
        BY <1>2, <1>3, <1>4, <1>5, <2>2 DEF ShownSize
      <3> QED BY <1>1, <2>1, <2>2, <3>1 DEF Spent, v
    <2>3. CASE ~ (v + Bytes[c.text] <= PatchCap)
      <3>1. ShownSize(ShownChange(cs, i)) = 0
        BY <1>2, <1>3, <2>3 DEF ShownSize
      <3> QED BY <1>1, <2>1, <2>3, <3>1 DEF Spent, v
    <2> QED BY <2>2, <2>3
  <1>6. CASE ~ (Operation(c) # "unknown" /\ c.text \in Text)
    <2>1. TextBytes(c) = 0
      BY <1>6 DEF TextBytes
    <2>2. ShownSize(ShownChange(cs, i)) = 0
      BY <1>2, <1>3, <1>6 DEF ShownSize
    <2> QED BY <1>1, <2>1, <2>2 DEF Spent, v
  <1> QED BY <1>5, <1>6

\* The sum of at most one number that is nought.
LEMMA SumOfNone ==
    ASSUME NEW m \in {0, 1}, NEW f, \A i \in 1 .. m : f[i] = 0
    PROVE  SumFunctionOnSet(f, 1 .. m) = 0
  <1>1. SumFunctionOnSet(f, {}) = 0
    BY SumEmpty
  <1>2. CASE m = 0
    <2>1. 1 .. m = {}
      BY <1>2
    <2> QED BY <1>1, <2>1
  <1>3. CASE m = 1
    <2>1. f[1] = 0 /\ 1 .. m = {} \cup {1}
      BY <1>3
    <2> DEFINE none == {}
    <2>2. IsFiniteSet(none) /\ (\A y \in none : f[y] \in Nat) /\ 1 \notin none
      BY FS_EmptySet
    <2> HIDE DEF none
    <2>3. SumFunctionOnSet(f, none \cup {1}) = f[1] + SumFunctionOnSet(f, none)
      BY <2>1, <2>2, SumAdd
    <2>4. SumFunctionOnSet(f, {} \cup {1}) = f[1] + SumFunctionOnSet(f, {})
      BY <2>3 DEF none
    <2>5. f[1] + SumFunctionOnSet(f, {}) = 0
      BY <1>1, <2>1
    <2>6. SumFunctionOnSet(f, {} \cup {1}) = 0
      BY <2>4, <2>5, Zenon
    <2> QED BY <2>1, <2>6, Zenon
  <1> QED BY <1>2, <1>3

\* So the bytes that the first n changes are shown with, after m of none, are those used.
LEMMA ShownPrefix ==
    ASSUME NEW cs \in Seq(PatchChange), NEW n \in 0 .. Len(cs), NEW m \in {0, 1}, NEW f,
           \A i \in 1 .. m : f[i] = 0,
           \A i \in 1 .. n : f[m + i] = ShownSize(ShownChange(cs, i))
    PROVE  SumFunctionOnSet(f, 1 .. m + n) = Used(cs, n)
  <1> DEFINE S(k) == SumFunctionOnSet(f, 1 .. m + k)
             T == {k \in Nat : k <= n => S(k) = Used(cs, k)}
  <1>1. n \in Nat /\ m \in Nat /\ Len(cs) \in Nat
    OBVIOUS
  <1>2. 0 \in T
    <2>1. 1 .. m + 0 = 1 .. m
      OBVIOUS
    <2> QED BY <2>1, SumOfNone, UsedSteps
  <1>3. ASSUME NEW k \in Nat, k \in T PROVE k + 1 \in T
    <2> SUFFICES ASSUME k + 1 <= n PROVE S(k + 1) = Used(cs, k + 1)
      OBVIOUS
    <2>1. k <= n /\ k + 1 \in 1 .. n /\ k + 1 \in 1 .. Len(cs) /\ (k + 1) - 1 = k
      BY <1>1
    <2>2. S(k) = Used(cs, k)
      BY <1>3, <2>1
    <2>3. /\ f[m + (k + 1)] = ShownSize(ShownChange(cs, k + 1))
          /\ Used(cs, k + 1) = Used(cs, k) + ShownSize(ShownChange(cs, k + 1))
      BY <2>1, ShownSizeIsUsed
    <2>4. ASSUME NEW i \in 1 .. (m + k) + 1 PROVE f[i] \in Nat
      <3>1. CASE i \in 1 .. m
        BY <3>1
      <3>2. CASE i \notin 1 .. m
        <4>1. i - m \in 1 .. n /\ i - m \in 1 .. Len(cs) /\ m + (i - m) = i
          BY <1>1, <2>1, <3>2
        <4> QED BY <4>1, ShownSizeIsUsed
      <3> QED BY <3>1, <3>2
    <2>5. m + k \in Nat /\ (m + k) + 1 = m + (k + 1)
      BY <1>1
    <2> DEFINE j == m + k
    <2>6. SumFunctionOnSet(f, 1 .. j + 1) = SumFunctionOnSet(f, 1 .. j) + f[j + 1]
      <3>1. j \in Nat /\ \A i \in 1 .. j + 1 : f[i] \in Nat
        BY <2>4, <2>5
      <3> HIDE DEF j
      <3> QED BY <3>1, SumUpTo
    <2> QED BY <2>2, <2>3, <2>5, <2>6
  <1>4. Nat \subseteq T
    <2> HIDE DEF T
    <2> QED BY <1>2, <1>3, Induction
  <1> QED BY <1>1, <1>4

\* At most one item is shown for the root, without any text.
LEMMA RootIsShort ==
    ASSUME NEW r
    PROVE  /\ Len(Root(r)) \in {0, 1} /\ Root(r) \in Seq({Root(r)[1]})
           /\ \A i \in 1 .. Len(Root(r)) : Root(r)[i].text = Absent
  <1>1. CASE r.root \in Text
    <2> DEFINE x == [path |-> Sanitised(r.root), operation |-> "grant_root", text |-> Absent,
                     move |-> Absent]
    <2>1. Root(r) = <<x>> /\ x.text = Absent
      BY <1>1 DEF Root
    <2> HIDE DEF x
    <2>2. Len(<<x>>) = 1 /\ <<x>>[1] = x /\ <<x>> \in Seq({x}) /\ \A i \in 1 .. 1 : i = 1
      OBVIOUS
    <2> QED BY <2>1, <2>2
  <1>2. CASE r.root \notin Text
    <2>1. Root(r) = <<>>
      BY <1>2 DEF Root
    <2>2. Len(<<>>) = 0 /\ \A S : <<>> \in Seq(S)
      OBVIOUS
    <2> QED BY <2>1, <2>2
  <1> QED BY <1>1, <1>2

\* What is shown of a patch is within the limits.
LEMMA PatchIsBounded ==
    ASSUME NEW r, r.changes \in Seq(PatchChange), NEW n \in 0 .. ListCap, n <= Len(r.changes),
           NEW d, d.changes = Root(r) \o [i \in 1 .. n |-> ShownChange(r.changes, i)]
    PROVE  Len(d.changes) <= ListCap + 1 /\ ShownBytes(d) <= PatchCap
  <1> DEFINE cs == r.changes
             root == Root(r)
             m == Len(root)
             shown == [i \in 1 .. n |-> ShownChange(cs, i)]
             all == root \o shown
             f == [i \in DOMAIN all |-> ShownSize(all[i])]
  <1>1. n \in 0 .. Len(cs) /\ n \in Nat /\ cs \in Seq(PatchChange) /\ ListCap \in Nat
    BY DescriptorAssumption
  <1>2. m \in {0, 1} /\ \A i \in 1 .. m : root[i].text = Absent
    BY RootIsShort
  <1> DEFINE V == {root[1]} \cup {ShownChange(cs, i) : i \in 1 .. n}
  <1>3. root \in Seq(V) /\ shown \in Seq(V) /\ Len(shown) = n
        /\ \A i \in 1 .. n : shown[i] = ShownChange(cs, i)
    <2>1. root \in Seq({root[1]})
      BY RootIsShort
    <2> HIDE DEF root, cs
    <2>2. root \in Seq(V)
      BY <2>1
    <2>3. shown \in [1 .. n -> V]
      OBVIOUS
    <2> HIDE DEF V
    <2>4. shown \in Seq(V) /\ Len(shown) = n
      BY <1>1, <2>3
    <2> QED BY <2>2, <2>4
  <1> HIDE DEF V, shown, root, cs
  <1>4. /\ all \in Seq(V) /\ Len(all) = m + n
        /\ \A i \in 1 .. m + n : all[i] = IF i <= m THEN root[i] ELSE shown[i - m]
    BY <1>3, ConcatProperties
  <1> HIDE DEF all
  <1>5. DOMAIN all = 1 .. m + n /\ DOMAIN f = 1 .. m + n
        /\ \A i \in 1 .. m + n : f[i] = ShownSize(all[i])
    BY <1>4
  <1>6. \A i \in 1 .. m : f[i] = 0
    <2> SUFFICES ASSUME NEW i \in 1 .. m PROVE f[i] = 0
      OBVIOUS
    <2>1. i \in 1 .. m + n /\ i <= m
      BY <1>1, <1>2
    <2> QED BY <1>2, <1>4, <1>5, <2>1 DEF ShownSize
  <1>7. \A i \in 1 .. n : f[m + i] = ShownSize(ShownChange(cs, i))
    <2> SUFFICES ASSUME NEW i \in 1 .. n PROVE f[m + i] = ShownSize(ShownChange(cs, i))
      OBVIOUS
    <2>1. m + i \in 1 .. m + n /\ ~ (m + i <= m) /\ (m + i) - m = i
      BY <1>1, <1>2
    <2> QED BY <1>3, <1>4, <1>5, <2>1
  <1> HIDE DEF f, m
  <1>8. SumFunctionOnSet(f, 1 .. m + n) = Used(cs, n)
    BY <1>1, <1>2, <1>6, <1>7, ShownPrefix
  <1>9. Used(cs, n) <= PatchCap
    BY <1>1, UsedSteps, DescriptorAssumption
  <1>10. ShownBytes(d) = SumFunction(f)
    BY Zenon DEF ShownBytes, f, all, root, shown, cs, ShownSize
  <1>11. SumFunction(f) = SumFunctionOnSet(f, 1 .. m + n)
    BY <1>5, SumFunctionIs
  <1>12. Len(d.changes) = m + n
    BY <1>4 DEF all, root, shown, cs
  <1> QED BY <1>1, <1>2, <1>8, <1>9, <1>10, <1>11, <1>12

\* What a patch that is within the limits has used is the bytes of its texts.
LEMMA OrdinaryIsUsed ==
    ASSUME NEW cs \in Seq(PatchChange), NEW g, SumFunctionOnSet(g, 1 .. Len(cs)) <= PatchCap,
           \A i \in 1 .. Len(cs) : g[i] \in Nat /\ TextBytes(cs[i].change) = g[i]
    PROVE  \A i \in 1 .. Len(cs) : Used(cs, i - 1) + g[i] <= PatchCap
  <1> DEFINE n == Len(cs)
             S(k) == SumFunctionOnSet(g, 1 .. k)
             T == {k \in Nat : k <= n => Used(cs, k) = S(k)}
  <1>1. n \in Nat /\ PatchCap \in Nat
    BY DescriptorAssumption
  <1>2. ASSUME NEW k \in 0 .. n PROVE S(k) \in Nat /\ S(k) <= PatchCap
    <2> DEFINE A == 1 .. n
               B == 1 .. k
    <2>1. IsFiniteSet(A) /\ IsFiniteSet(B) /\ B \in SUBSET A /\ A \ B \in SUBSET A
          /\ \A i \in A : g[i] \in Nat
      BY FS_Interval
    <2>2. SumFunctionOnSet(g, A) <= PatchCap
      OBVIOUS
    <2> HIDE DEF A, B
    <2>3. SumFunctionOnSet(g, A) = SumFunctionOnSet(g, B) + SumFunctionOnSet(g, A \ B)
      BY <2>1, SumSplit
    <2>4. IsFiniteSet(A \ B)
      BY <2>1, FS_Subset
    <2>5. SumFunctionOnSet(g, B) \in Nat /\ SumFunctionOnSet(g, A \ B) \in Nat
      BY <2>1, <2>4, SumIsNat
    <2> QED BY <1>1, <2>2, <2>3, <2>5 DEF B
  <1>3. ASSUME NEW k \in Nat, k + 1 <= n PROVE S(k + 1) = S(k) + g[k + 1] /\ k + 1 \in 1 .. n
                                                                          /\ k \in 0 .. n
    <2>1. \A i \in 1 .. k + 1 : i \in 1 .. n
      BY <1>1, <1>3
    <2>2. \A i \in 1 .. k + 1 : g[i] \in Nat
      BY <2>1
    <2>3. S(k + 1) = S(k) + g[k + 1]
      BY <2>2, SumUpTo
    <2> QED BY <1>1, <1>3, <2>3
  <1>4. 0 \in T
    <2>1. 1 .. 0 = {}
      OBVIOUS
    <2> QED BY <2>1, SumEmpty, UsedSteps
  <1>5. ASSUME NEW k \in Nat, k \in T PROVE k + 1 \in T
    <2> SUFFICES ASSUME k + 1 <= n PROVE Used(cs, k + 1) = S(k + 1)
      OBVIOUS
    <2>1. S(k + 1) = S(k) + g[k + 1] /\ k + 1 \in 1 .. n /\ k + 1 \in 0 .. n /\ (k + 1) - 1 = k
      BY <1>1, <1>3
    <2>2. Used(cs, k) = S(k)
      BY <1>1, <1>5
    <2>3. Used(cs, k + 1) = Spent(Used(cs, k), g[k + 1])
      BY <2>1, UsedSteps
    <2>4. S(k + 1) <= PatchCap
      BY <1>2, <2>1
    <2> HIDE DEF S
    <2> QED BY <2>1, <2>2, <2>3, <2>4 DEF Spent
  <1>6. Nat \subseteq T
    <2> HIDE DEF T
    <2> QED BY <1>4, <1>5, Induction
  <1> SUFFICES ASSUME NEW i \in 1 .. n PROVE Used(cs, i - 1) + g[i] <= PatchCap
    OBVIOUS
  <1>7. i - 1 \in Nat /\ (i - 1) + 1 = i /\ i - 1 <= n /\ i <= n /\ i \in 0 .. n
    BY <1>1
  <1>8. Used(cs, i - 1) = S(i - 1)
    BY <1>6, <1>7
  <1> DEFINE k == i - 1
  <1>9. k \in Nat /\ k + 1 = i
    BY <1>7
  <1> HIDE DEF k
  <1>10. S(k + 1) = S(k) + g[k + 1]
    BY <1>3, <1>7, <1>9
  <1>11. S(i) <= PatchCap
    BY <1>2, <1>7
  <1> HIDE DEF S
  <1> QED BY <1>8, <1>9, <1>10, <1>11 DEF k

\* A command or a patch within the limits can be reviewed.
LEMMA OrdinaryIsReviewable ==
    ASSUME NEW r \in Request, Ordinary(r)
    PROVE  Describe(r).reviewable
  <1>1. /\ ~r.extension /\ r.reason \in Exact \cup {Absent}
        /\ r.cwd \in (IF r.method = "applyPatch" THEN {Absent} ELSE Exact)
        /\ r.method \in {"commandExecution", "execCommand", "applyPatch"}
    <2>1. r.method \in {"commandExecution", "execCommand", "applyPatch",
                         "fileChange", "permissions"}
      BY DEF Request
    <2> QED BY <2>1 DEF Ordinary
  <1>2. Described(r).reviewable
    BY <1>1 DEF Described, Reviewable, Classified
  <1>3. CASE r.method = "commandExecution"
    <2>1. /\ r.command \in Exact /\ r.environment \in Exact \cup {Absent} /\ ~r.amendment
          /\ r.network # Wrong /\ (r.network = Absent \/ r.network.host \in Exact)
      BY <1>3 DEF Ordinary
    <2>2. r.cwd \in Text
      BY <1>1, <1>3 DEF Text, Short
    <2>3. DescribeCommandExecution(r).reviewable
      BY <1>2, <2>1, <2>2 DEF DescribeCommandExecution, Described, Reviewable, NetworkReviewable
    <2> QED BY <1>3, <2>3 DEF Describe
  <1>4. CASE r.method = "execCommand"
    <2>1. r.command # Wrong /\ r.command \in UNION {[1 .. n -> Exact] : n \in 0 .. ListCap}
      BY <1>4 DEF Ordinary
    <2>2. PICK n \in 0 .. ListCap : r.command \in [1 .. n -> Exact]
      BY <2>1
    <2>3. Len(r.command) = n /\ n <= ListCap /\ \A i \in DOMAIN r.command : r.command[i] \in Exact
      BY <2>2, DescriptorAssumption
    <2>4. r.cwd \in Text /\ Exact \subseteq Text
      BY <1>1, <1>4 DEF Text, Short
    <2>5. DescribeExecCommand(r).reviewable
      BY <1>2, <2>1, <2>3, <2>4 DEF DescribeExecCommand, Described
    <2> QED BY <1>4, <2>5 DEF Describe
  <1>5. CASE r.method = "applyPatch"
    <2> DEFINE cs == r.changes
               g == [i \in DOMAIN cs |-> Bytes[cs[i].change.text]]
    <2>1. /\ r.root \in Exact \cup {Absent} /\ cs # Wrong /\ Len(cs) <= ListCap
          /\ \A i \in DOMAIN cs :
                LET c == cs[i].change IN
                /\ cs[i].path \in Exact /\ c # Wrong
                /\ ~c.extension /\ c.text \in Text /\ c.type \in {"add", "update", "delete"}
                /\ c.move \in (IF c.type = "update" THEN Exact \cup {Absent} ELSE {Absent})
          /\ SumFunction(g) <= PatchCap
      BY <1>5 DEF Ordinary
    <2>2. cs \in Seq(PatchChange)
      BY <1>5, <2>1 DEF Request, PatchChange
    <2> HIDE DEF cs
    <2>3. DOMAIN cs = 1 .. Len(cs)
      BY <2>2
    <2>4. ASSUME NEW i \in 1 .. Len(cs)
          PROVE  g[i] \in Nat /\ g[i] = Bytes[cs[i].change.text] /\ TextBytes(cs[i].change) = g[i]
      BY <2>1, <2>3, DescriptorAssumption DEF TextBytes, Operation
    <2>5. SumFunctionOnSet(g, 1 .. Len(cs)) <= PatchCap
      <3>1. DOMAIN g = 1 .. Len(cs)
        BY <2>3
      <3> HIDE DEF g
      <3> QED BY <2>1, <3>1, SumFunctionIs
    <2> HIDE DEF g
    <2>6. \A i \in 1 .. Len(cs) : Used(cs, i - 1) + g[i] <= PatchCap
      BY <2>2, <2>4, <2>5, OrdinaryIsUsed
    <2>7. ASSUME NEW i \in 1 .. Len(cs) PROVE ChangeReviewable(cs, i)
      <3>1. Fits(cs, i)
        BY <2>1, <2>3, <2>4, <2>6 DEF Fits
      <3> QED BY <2>1, <2>3, <3>1 DEF ChangeReviewable, Operation, Reviewable
    <2>8. DescribePatch(r).reviewable
      BY <1>2, <2>1, <2>7 DEF DescribePatch, Described, Reviewable, cs
    <2> QED BY <1>5, <2>8 DEF Describe
  <1> QED BY <1>1, <1>3, <1>4, <1>5

\* The lists of a valid profile are sequences, whose items are shown one by one.
LEMMA FilesAreCounted ==
    ASSUME NEW r \in Request, r.method = "permissions", ValidProfile(r.permissions)
    PROVE  Len(ShownProfile(r.permissions).files) <= ListCap
  <1> DEFINE p == r.permissions
             A == Listed(p.entries)
             B == Listed(p.read)
             C == Listed(p.write)
             a == [i \in DOMAIN A |-> ShownEntry(p.entries[i])]
             b == [i \in DOMAIN B |-> PathEntry("read", Sanitised(p.read[i]))]
             c == [i \in DOMAIN C |-> PathEntry("write", Sanitised(p.write[i]))]
  <1>1. p \in Profile
    BY DEF ValidProfile, Request
  <1>2. p.entries \in List(Entry) /\ p.read \in List(Field) /\ p.write \in List(Field)
    BY <1>1 DEF Profile
  <1>3. ASSUME NEW S, NEW q \in List(S) PROVE Listed(q) \in Seq(S)
    BY DEF List, Listed
  <1>4. A \in Seq(Entry) /\ B \in Seq(Field) /\ C \in Seq(Field)
    BY <1>2, <1>3
  <1>5. Len(A) + Len(B) + Len(C) <= ListCap
    BY DEF ValidProfile, Counted
  <1>6. ShownProfile(p).files = a \o b \o c
    BY DEF ShownProfile
  <1> HIDE DEF A, B, C, p
  <1>7. DOMAIN A = 1 .. Len(A) /\ DOMAIN B = 1 .. Len(B) /\ DOMAIN C = 1 .. Len(C)
    BY <1>4
  <1>8. Len(A) \in Nat /\ Len(B) \in Nat /\ Len(C) \in Nat
    BY <1>4
  <1> DEFINE V == {a[i] : i \in DOMAIN A} \cup {b[i] : i \in DOMAIN B} \cup {c[i] : i \in DOMAIN C}
  <1>9. a \in [1 .. Len(A) -> V] /\ b \in [1 .. Len(B) -> V] /\ c \in [1 .. Len(C) -> V]
    BY <1>7
  <1> HIDE DEF a, b, c, V
  <1>10. /\ a \in Seq(V) /\ Len(a) = Len(A) /\ b \in Seq(V) /\ Len(b) = Len(B)
         /\ c \in Seq(V) /\ Len(c) = Len(C)
    <2>1. ASSUME NEW k \in Nat, NEW g \in [1 .. k -> V] PROVE g \in Seq(V) /\ Len(g) = k
      <3>1. g \in Seq(V) /\ DOMAIN g = 1 .. k
        BY FunctionIsSequence
      <3> QED BY <3>1
    <2> QED BY <1>8, <1>9, <2>1
  <1>11. Len(a \o b \o c) = Len(a) + Len(b) + Len(c)
    BY <1>10
  <1> QED BY <1>5, <1>6, <1>10, <1>11 DEF p

\* No text of nothing has no bytes.
LEMMA NothingIsShown ==
    ASSUME NEW d, NEW n \in {0, 1}, Len(d.changes) = n, DOMAIN d.changes = 1 .. n,
           \A i \in 1 .. n : d.changes[i].text = Absent
    PROVE  ShownBytes(d) = 0
  <1> DEFINE f == [i \in DOMAIN d.changes |->
                     IF d.changes[i].text = Absent THEN 0 ELSE Bytes[d.changes[i].text]]
  <1>1. DOMAIN f = 1 .. n /\ \A i \in 1 .. n : f[i] = 0
    OBVIOUS
  <1>2. ShownBytes(d) = SumFunction(f)
    BY Zenon DEF ShownBytes
  <1> HIDE DEF f
  <1>3. SumFunctionOnSet(f, 1 .. n) = 0
    BY <1>1, SumOfNone
  <1>4. SumFunction(f) = SumFunctionOnSet(f, 1 .. n)
    BY <1>1, SumFunctionIs, Zenon
  <1> QED BY <1>2, <1>3, <1>4, Zenon

\* What is shown of any request is within the limits.
LEMMA DescriptorIsBounded ==
    ASSUME NEW r \in Request
    PROVE  Bounded(Describe(r))
  <1> DEFINE d == Describe(r)
  <1>1. /\ r.method \in {"commandExecution", "execCommand", "applyPatch",
                         "fileChange", "permissions"}
        /\ ListCap \in Nat /\ PatchCap \in Nat
    BY DescriptorAssumption DEF Request
  <1>2. ASSUME d.changes = <<>> PROVE Len(d.changes) <= ListCap + 1 /\ ShownBytes(d) <= PatchCap
    <2>1. Len(d.changes) = 0 /\ DOMAIN d.changes = 1 .. 0 /\ \A i \in 1 .. 0 : FALSE
      BY <1>2
    <2> HIDE DEF d
    <2>2. ShownBytes(d) = 0
      BY <2>1, NothingIsShown
    <2> QED BY <1>1, <2>1, <2>2
  <1>3. ASSUME d.changes = Root(r) PROVE Len(d.changes) <= ListCap + 1 /\ ShownBytes(d) <= PatchCap
    <2> DEFINE n == Len(d.changes)
    <2>1. n \in {0, 1} /\ d.changes \in Seq({Root(r)[1]})
          /\ \A i \in 1 .. n : d.changes[i].text = Absent
      BY <1>3, RootIsShort
    <2>2. DOMAIN d.changes = 1 .. n
      BY <2>1
    <2> HIDE DEF d, n
    <2>3. ShownBytes(d) = 0
      BY <2>1, <2>2, NothingIsShown DEF n
    <2> QED BY <1>1, <2>1, <2>3 DEF n
  <1>4. ASSUME d.permissions = NoPermissions PROVE Len(d.permissions.files) <= ListCap
    BY <1>1, <1>4 DEF NoPermissions
  <1>5. CASE r.method = "commandExecution"
    <2>1. d = DescribeCommandExecution(r)
      BY <1>5 DEF Describe
    <2>2. d.changes = <<>> /\ d.permissions = NoPermissions /\ d.arguments = <<>>
      BY <2>1 DEF DescribeCommandExecution, Described
    <2> HIDE DEF d
    <2>3. Len(d.arguments) = 0
      BY <2>2
    <2> QED BY <1>1, <1>2, <1>4, <2>2, <2>3 DEF Bounded, d
  <1>6. CASE r.method = "execCommand"
    <2>1. d = DescribeExecCommand(r)
      BY <1>6 DEF Describe
    <2>2. d.changes = <<>> /\ d.permissions = NoPermissions
      BY <2>1 DEF DescribeExecCommand, Described
    <2>3. d.reviewable => Len(d.arguments) <= ListCap
      <3> SUFFICES ASSUME d.reviewable PROVE Len(d.arguments) <= ListCap
        OBVIOUS
      <3>1. r.command # Wrong /\ Len(r.command) <= ListCap
        BY <2>1 DEF DescribeExecCommand
      <3>2. d.arguments = [i \in DOMAIN r.command |-> Sanitised(r.command[i])]
        BY <2>1 DEF DescribeExecCommand, Described
      <3>3. r.command \in Seq(Field)
        BY <1>6, <3>1 DEF Request
      <3> HIDE DEF d
      <3>4. DOMAIN r.command = 1 .. Len(r.command) /\ Len(r.command) \in Nat
        BY <3>3
      <3>5. Len(d.arguments) = Len(r.command)
        BY <3>2, <3>4
      <3> QED BY <3>1, <3>5
    <2> HIDE DEF d
    <2> QED BY <1>2, <1>4, <2>2, <2>3 DEF Bounded, d
  <1>7. CASE r.method = "applyPatch"
    <2>1. d = DescribePatch(r)
      BY <1>7 DEF Describe
    <2>2. d.permissions = NoPermissions /\ d.arguments = <<>>
      BY <2>1 DEF DescribePatch, Described
    <2>3. CASE r.changes = Wrong
      <3>1. d.changes = Root(r)
        BY <2>1, <2>3 DEF DescribePatch, Described
      <3> HIDE DEF d
      <3>2. Len(d.arguments) = 0
        BY <2>2
      <3> QED BY <1>1, <1>3, <1>4, <2>2, <3>1, <3>2 DEF Bounded, d
    <2>4. CASE r.changes # Wrong
      <3> DEFINE n == IF Len(r.changes) <= ListCap THEN Len(r.changes) ELSE ListCap
      <3>1. r.changes \in Seq(PatchChange)
        BY <1>7, <2>4 DEF Request, PatchChange
      <3>2. n \in 0 .. ListCap /\ n <= Len(r.changes)
        BY <1>1, <3>1
      <3>3. d.changes = Root(r) \o [i \in 1 .. n |-> ShownChange(r.changes, i)]
        BY <2>1, <2>4 DEF DescribePatch, Described
      <3> HIDE DEF n, d
      <3>4. Len(d.changes) <= ListCap + 1 /\ ShownBytes(d) <= PatchCap
        BY <3>1, <3>2, <3>3, PatchIsBounded
      <3>5. Len(d.arguments) = 0
        BY <2>2
      <3> QED BY <1>1, <1>4, <2>2, <3>4, <3>5 DEF Bounded, d
    <2> QED BY <2>3, <2>4
  <1>8. CASE r.method = "fileChange"
    <2>1. d = DescribeFileChange(r)
      BY <1>8 DEF Describe
    <2>2. d.changes = Root(r) /\ d.permissions = NoPermissions /\ ~d.reviewable
      BY <2>1 DEF DescribeFileChange, Described
    <2> HIDE DEF d
    <2> QED BY <1>3, <1>4, <2>2 DEF Bounded, d
  <1>9. CASE r.method = "permissions"
    <2>1. d = DescribePermissions(r)
      BY <1>9 DEF Describe
    <2>2. d.changes = <<>> /\ d.arguments = <<>>
      BY <2>1 DEF DescribePermissions, Described
    <2>3. d.permissions
              = IF ValidProfile(r.permissions) THEN ShownProfile(r.permissions) ELSE NoPermissions
      BY <2>1 DEF DescribePermissions, Described
    <2> HIDE DEF d
    <2>4. Len(d.arguments) = 0
      BY <2>2
    <2>5. Len(d.permissions.files) <= ListCap
      BY <1>4, <1>9, <2>3, FilesAreCounted DEF d
    <2> QED BY <1>1, <1>2, <2>2, <2>4, <2>5 DEF Bounded, d
  <1> HIDE DEF d
  <1>10. Bounded(d)
    BY <1>1, <1>5, <1>6, <1>7, <1>8, <1>9 DEF d
  <1> QED BY <1>10 DEF d

\* The limits hold whatever the app-server sends, one by one and in sum, and refuse no command or
\* patch that is within them (client.rs:1535-1547), for any limits.
THEOREM LimitsAreExactAlways == Spec => []LimitsAreExact
  <1>1. IInv => LimitsAreExact
    BY DescriptorIsBounded, OrdinaryIsReviewable DEF IInv, LimitsAreExact
  <1> QED BY <1>1, IInvAlways, PTL


-------------------------------------------------------------------------------
(* Sizes *)

\* A finite set of events with sizes.
Sized(evs) == IsFiniteSet(evs) /\ \A e \in evs : e.size \in Nat

\* SizeOf sums the same sizes over a part as over the whole.
LEMMA SizeOfPart ==
    ASSUME NEW E, Sized(E), NEW U \in SUBSET E
    PROVE  /\ SizeOf(U) = SumFunctionOnSet([e \in E |-> e.size], U) /\ SizeOf(U) \in Nat
           /\ Sized(U)
  <1> DEFINE f == [e \in U |-> e.size]
             g == [e \in E |-> e.size]
  <1>1. IsFiniteSet(U) /\ \A e \in U : f[e] \in Nat /\ g[e] = f[e] /\ e.size \in Nat
    BY FS_Subset DEF Sized
  <1>2. SizeOf(U) = SumFunctionOnSet(f, U)
    BY DEF SizeOf
  <1> HIDE DEF f, g
  <1>3. SumFunctionOnSet(f, U) = SumFunctionOnSet(g, U)
    BY <1>1, SumSame
  <1>4. SumFunctionOnSet(f, U) \in Nat
    BY <1>1, SumIsNat
  <1> QED BY <1>1, <1>2, <1>3, <1>4 DEF g, Sized

\* The size of a set of events is that of a part and that of the rest.
LEMMA SizeSplit ==
    ASSUME NEW E, Sized(E), NEW U \in SUBSET E
    PROVE  /\ SizeOf(E) = SizeOf(U) + SizeOf(E \ U)
           /\ SizeOf(E) \in Nat /\ SizeOf(U) \in Nat /\ SizeOf(E \ U) \in Nat
  <1> DEFINE g == [e \in E |-> e.size]
  <1>1. IsFiniteSet(E) /\ \A e \in E : g[e] \in Nat
    BY DEF Sized
  <1> HIDE DEF g
  <1>2. SumFunctionOnSet(g, E) = SumFunctionOnSet(g, U) + SumFunctionOnSet(g, E \ U)
    BY <1>1, SumSplit
  <1>3. ASSUME NEW V \in SUBSET E PROVE SizeOf(V) = SumFunctionOnSet(g, V) /\ SizeOf(V) \in Nat
    BY SizeOfPart DEF g
  <1>4. E \in SUBSET E /\ U \in SUBSET E /\ E \ U \in SUBSET E
    OBVIOUS
  <1> QED BY <1>2, <1>3, <1>4

\* No event has no size.
LEMMA SizeEmpty == SizeOf({}) = 0
  BY SumEmpty DEF SizeOf

\* The size of a set with one event more.
LEMMA SizeAdd ==
    ASSUME NEW E, Sized(E), NEW x, x \notin E, x.size \in Nat
    PROVE  Sized(E \cup {x}) /\ SizeOf(E \cup {x}) = x.size + SizeOf(E)
  <1> DEFINE U == E \cup {x}
             g == [e \in U |-> e.size]
  <1>1. Sized(U)
    BY FS_AddElement DEF Sized
  <1>2. E \in SUBSET U /\ U \in SUBSET U /\ U = E \cup {x} /\ \A e \in U : g[e] \in Nat
    BY <1>1 DEF Sized
  <1>3. g[x] = x.size
    OBVIOUS
  <1>4. IsFiniteSet(E) /\ \A e \in E : g[e] \in Nat
    BY DEF Sized
  <1>5. SizeOf(E) = SumFunctionOnSet(g, E)
    <2> HIDE DEF U
    <2> QED BY <1>1, <1>2, SizeOfPart
  <1>6. SizeOf(U) = SumFunctionOnSet(g, U)
    BY DEF SizeOf
  <1> HIDE DEF g
  <1>7. SumFunctionOnSet(g, E \cup {x}) = g[x] + SumFunctionOnSet(g, E)
    BY <1>2, <1>3, <1>4, SumAdd
  <1> QED BY <1>1, <1>3, <1>5, <1>6, <1>7

-------------------------------------------------------------------------------
(* Eviction *)

\* What is evicted for an event leaves room for it.
LEMMA EvictionMakesRoom ==
    ASSUME NEW ev, Sized(Retained(ev)), \A e \in Retained(ev) : e.id \in Nat,
           NEW b \in Nat, b <= MaxEventBytes
    PROVE  /\ Evicted(ev, SizeOf(Retained(ev)), b) \in SUBSET Retained(ev)
           /\ SizeOf(Retained(ev)) + b <= MaxReplay + SizeOf(Evicted(ev, SizeOf(Retained(ev)), b))
  <1> DEFINE R == Retained(ev)
             total == SizeOf(R)
             E == Evicted(ev, total, b)
             Older(e) == {f \in R : f.id < e.id}
  <1>1. E \in SUBSET R /\ \A e \in R : e \notin E => ~ (total + b > MaxReplay + SizeOf(Older(e)))
    BY DEF Evicted
  <1>2. MaxReplay \in Nat /\ MaxEventBytes \in Nat /\ MaxEventBytes <= MaxReplay
    BY ReplayAssumption
  <1> HIDE DEF R, E
  <1>3. Sized(R) /\ \A e \in R : e.id \in Nat
    BY DEF R
  <1>4. total \in Nat /\ SizeOf(E) \in Nat
    BY <1>1, <1>3, SizeSplit
  <1>5. CASE R \ E = {}
    <2>1. E = R
      BY <1>1, <1>5
    <2> QED BY <1>1, <1>2, <1>4, <2>1 DEF R, E
  <1>6. CASE R \ E # {}
    <2> DEFINE T == {e.id : e \in R \ E}
    <2>1. T \subseteq Nat /\ T # {}
      BY <1>3, <1>6
    <2>2. PICK i \in T : \A j \in T : i <= j
      <3> HIDE DEF T
      <3> QED BY <2>1, Least
    <2>3. PICK e \in R \ E : i = e.id
      BY <2>2
    <2>4. ASSUME NEW f \in R, f.id < e.id PROVE f \in E
      <3> SUFFICES ASSUME f \notin E PROVE FALSE
        OBVIOUS
      <3>1. i <= f.id
        BY <2>2
      <3> QED BY <1>3, <2>3, <2>4, <3>1
    <2>5. Older(e) \in SUBSET E
      BY <2>4
    <2>6. Sized(E)
      BY <1>1, <1>3, SizeOfPart
    <2>7. /\ SizeOf(E) = SizeOf(Older(e)) + SizeOf(E \ Older(e)) /\ SizeOf(Older(e)) \in Nat
          /\ SizeOf(E \ Older(e)) \in Nat
      <3> HIDE DEF Older
      <3> QED BY <2>5, <2>6, SizeSplit
    <2>8. ~ (total + b > MaxReplay + SizeOf(Older(e)))
      BY <1>1, <2>3
    <2>9. total + b <= MaxReplay + SizeOf(E)
      <3> DEFINE x == SizeOf(Older(e))
      <3>1. x \in Nat /\ SizeOf(E) >= x
        BY <2>7
      <3>2. ~ (total + b > MaxReplay + x)
        BY <2>8
      <3> HIDE DEF x, total
      <3> QED BY <1>2, <1>4, <3>1, <3>2
    <2> QED BY <1>1, <2>9 DEF R, E
  <1> QED BY <1>5, <1>6

-------------------------------------------------------------------------------
(* A push *)

\* An event, whatever its id.
EventRecord == [id : Nat, size : Size]

\* Without takes the events of a set out of a list, and keeps the order of the others.
LEMMA WithoutElements ==
    ASSUME NEW S, NEW q \in Seq(S), NEW evs
    PROVE  /\ Without(evs, q) \in Seq(S) /\ ToSet(Without(evs, q)) = ToSet(q) \ evs
           /\ Len(Without(evs, q)) <= Len(q)
           /\ q # <<>> /\ Head(q) \in evs => Len(Without(evs, q)) < Len(q)
           /\ \A R : Ordered(q, R) => Ordered(Without(evs, q), R)
  <1> DEFINE K == ToSet(q) \ evs
  <1>1. Filter(q, K) \in Seq(S \cap K)
    BY FilterType
  <1>2. Filter(q, K) \in Seq(S)
    BY <1>1
  <1>3. ToSet(Filter(q, K)) = ToSet(q) \cap K
    BY FilterElements
  <1>4. Len(Filter(q, K)) <= Len(q) /\ (q # <<>> /\ Head(q) \notin K => Len(Filter(q, K)) < Len(q))
    BY FilterShortens
  <1>5. ASSUME NEW R, Ordered(q, R) PROVE Ordered(Filter(q, K), R)
    BY <1>5, FilterOrdered
  <1> QED BY <1>2, <1>3, <1>4, <1>5 DEF Without

\* The retained events, with their counts: those of the turns are apart.
Apart(ev) == \A t, u \in Turn : t # u => ToSet(ev[t]) \cap ToSet(ev[u]) = {}

ExactCounts(ev, by, total) ==
    /\ ev \in [Turn -> Seq(EventRecord)] /\ by \in [Turn -> Nat]
    /\ IsFiniteSet(Retained(ev)) /\ Apart(ev)
    /\ \A t \in Turn : by[t] = SizeOf(ToSet(ev[t])) /\ Len(ev[t]) <= MaxEvents
    /\ total = SizeOf(Retained(ev)) /\ total <= MaxReplay

\* The retained events are those of the turns, and have sizes.
LEMMA RetainedAreEvents ==
    ASSUME NEW ev \in [Turn -> Seq(EventRecord)]
    PROVE  /\ Retained(ev) \subseteq EventRecord
           /\ \A t \in Turn : ToSet(ev[t]) \subseteq Retained(ev)
           /\ \A e \in Retained(ev) : \E t \in Turn : e \in ToSet(ev[t])
           /\ \A e \in Retained(ev) : e.size \in Nat /\ e.id \in Nat
           /\ IsFiniteSet(Retained(ev)) => Sized(Retained(ev))
  <1>1. ASSUME NEW t \in Turn PROVE ToSet(ev[t]) \subseteq EventRecord
    BY DEF ToSet
  <1>2. Retained(ev) \subseteq EventRecord
    BY <1>1 DEF Retained
  <1>3. Size \subseteq Nat
    BY ReplayAssumption
  <1>4. \A e \in EventRecord : e.size \in Nat /\ e.id \in Nat
    BY <1>3 DEF EventRecord
  <1> QED BY <1>2, <1>4 DEF Retained, Sized

\* The total that is exact is within its limit.
LEMMA ExactTotal ==
    ASSUME NEW ev, NEW by, NEW total, ExactCounts(ev, by, total) PROVE total \in 0 .. MaxReplay
  <1>1. Sized(Retained(ev)) /\ total = SizeOf(Retained(ev)) /\ total <= MaxReplay
    BY RetainedAreEvents DEF ExactCounts
  <1>2. total \in Nat
    BY <1>1, SizeSplit
  <1> QED BY <1>1, <1>2, ReplayAssumption

\* The event that is pushed.
NewEvent(b) == [id |-> next, size |-> b]

\* What a push of an event that fits does to the lists: some events are gone.
Pushes(t, b, ev, by, total, gone) ==
    /\ gone \in SUBSET Retained(ev)
    /\ NewEvent(b) \in EventRecord /\ NewEvent(b) \notin Retained(ev)
    /\ events' \in [Turn -> Seq(EventRecord)]
    /\ \A u \in Turn :
          /\ ToSet(events'[u]) = (ToSet(ev[u]) \ gone) \cup (IF u = t THEN {NewEvent(b)} ELSE {})
          /\ Len(events'[u]) <= MaxEvents
    /\ \A u \in Turn : \A R :
          Ordered(ev[u], R) /\ (u = t => \A e \in ToSet(ev[u]) : <<e, NewEvent(b)>> \in R)
          => Ordered(events'[u], R)
    /\ bytes' = [u \in Turn |-> by[u] + (IF u = t THEN b ELSE 0) - SizeOf(gone \cap ToSet(ev[u]))]
    /\ replayBytes' = total + b - SizeOf(gone)
    /\ total + b <= MaxReplay + SizeOf(gone)

\* api.rs:1805-1868: a push that fits evicts what it must, and no more than there is.
LEMMA PushedEvents ==
    ASSUME NEW t \in Turn, NEW b \in Size, b <= MaxEventBytes, next \in Nat,
           NEW ev, NEW by, NEW total, NEW ch, ExactCounts(ev, by, total),
           \A e \in Retained(ev) : e.id < next, PushEvent(t, b, ev, by, total, ch)
    PROVE  \E gone : Pushes(t, b, ev, by, total, gone)
  <1> DEFINE new == NewEvent(b)
             old == Evicted(ev, total, b)
             kept == Without(old, ev[t])
             pushed == Append(kept, new)
             over == Overflow(pushed)
             gone == old \cup over
  <1>1. /\ b \in Nat /\ MaxEventBytes \in Nat /\ MaxReplay \in Nat /\ MaxEvents \in Nat
        /\ MaxEvents # 0
    BY ReplayAssumption
  <1>2. /\ events' = [u \in Turn |-> IF u = t THEN Without(over, pushed) ELSE Without(old, ev[u])]
        /\ bytes' = [u \in Turn |-> by[u] + (IF u = t THEN b ELSE 0)
                                      - SizeOf(gone \cap ToSet(ev[u]))]
        /\ replayBytes' = total + b - SizeOf(gone)
    BY <1>1 DEF PushEvent, NewEvent
  <1>3. /\ ev \in [Turn -> Seq(EventRecord)] /\ total = SizeOf(Retained(ev))
        /\ Apart(ev) /\ \A u \in Turn : Len(ev[u]) <= MaxEvents
    BY DEF ExactCounts
  <1>4. /\ Sized(Retained(ev)) /\ \A e \in Retained(ev) : e.id \in Nat
        /\ \A u \in Turn : ToSet(ev[u]) \subseteq Retained(ev)
    BY <1>3, RetainedAreEvents DEF ExactCounts
  <1>5. old \in SUBSET Retained(ev) /\ total + b <= MaxReplay + SizeOf(old)
    BY <1>1, <1>3, <1>4, EvictionMakesRoom
  <1>6. new \in EventRecord /\ new \notin Retained(ev)
    <2>1. new.id = next
      BY DEF NewEvent
    <2>2. ~ (next < next)
      OBVIOUS
    <2> QED BY <2>1, <2>2 DEF NewEvent, EventRecord
  <1> HIDE DEF new, old
  <1>7. /\ kept \in Seq(EventRecord) /\ ToSet(kept) = ToSet(ev[t]) \ old /\ Len(kept) <= Len(ev[t])
        /\ \A R : Ordered(ev[t], R) => Ordered(kept, R)
    BY <1>3, WithoutElements
  <1> HIDE DEF kept
  <1>8. /\ pushed \in Seq(EventRecord) /\ ToSet(pushed) = ToSet(kept) \cup {new}
        /\ Len(pushed) = Len(kept) + 1 /\ pushed # <<>>
        /\ kept # <<>> => Head(pushed) = Head(kept) /\ Head(kept) \in ToSet(kept)
    <2>1. ToSet(pushed) = ToSet(kept) \cup {new}
      BY <1>7, ToSetAppend
    <2>2. kept # <<>> => Head(kept) = kept[1] /\ 1 \in DOMAIN kept
      BY <1>7
    <2>3. /\ pushed \in Seq(EventRecord) /\ Len(pushed) = Len(kept) + 1 /\ pushed # <<>>
          /\ kept # <<>> => Head(pushed) = Head(kept)
      <3>1. pushed \in Seq(EventRecord)
        BY <1>6, <1>7
      <3> QED BY <1>7, <3>1, HeadAppend
    <2> QED BY <2>1, <2>2, <2>3 DEF ToSet
  <1>9. over \in SUBSET ToSet(kept) /\ (Len(pushed) > MaxEvents => over = {Head(pushed)})
    BY <1>1, <1>7, <1>8 DEF Overflow
  <1> HIDE DEF pushed, over
  <1>10. ToSet(kept) \in SUBSET ToSet(ev[t])
    BY <1>7
  <1>11. gone \in SUBSET Retained(ev)
    BY <1>4, <1>5, <1>9, <1>10
  <1>12. /\ Without(over, pushed) \in Seq(EventRecord)
         /\ ToSet(Without(over, pushed)) = ToSet(pushed) \ over
         /\ Len(Without(over, pushed)) <= MaxEvents
         /\ \A R : Ordered(pushed, R) => Ordered(Without(over, pushed), R)
    <2>1. /\ Without(over, pushed) \in Seq(EventRecord)
          /\ ToSet(Without(over, pushed)) = ToSet(pushed) \ over
          /\ Len(Without(over, pushed)) <= Len(pushed)
          /\ Head(pushed) \in over => Len(Without(over, pushed)) < Len(pushed)
          /\ \A R : Ordered(pushed, R) => Ordered(Without(over, pushed), R)
      BY <1>8, WithoutElements
    <2>2. /\ Len(pushed) \in Nat /\ Len(kept) \in Nat /\ Len(ev[t]) \in Nat
          /\ Len(Without(over, pushed)) \in Nat
      BY <1>3, <1>7, <1>8, <2>1
    <2>3. Len(pushed) <= MaxEvents + 1
      BY <1>1, <1>3, <1>7, <1>8, <2>2
    <2>4. CASE Len(pushed) > MaxEvents
      BY <1>1, <1>9, <2>1, <2>2, <2>3, <2>4
    <2>5. CASE ~ (Len(pushed) > MaxEvents)
      BY <1>1, <2>1, <2>2, <2>5
    <2> QED BY <2>1, <2>4, <2>5
  <1>13. ASSUME NEW u \in Turn, u # t
         PROVE  /\ Without(old, ev[u]) \in Seq(EventRecord)
                /\ ToSet(Without(old, ev[u])) = ToSet(ev[u]) \ gone
                /\ Len(Without(old, ev[u])) <= MaxEvents
                /\ \A R : Ordered(ev[u], R) => Ordered(Without(old, ev[u]), R)
    <2>1. /\ Without(old, ev[u]) \in Seq(EventRecord)
          /\ ToSet(Without(old, ev[u])) = ToSet(ev[u]) \ old
          /\ Len(Without(old, ev[u])) <= Len(ev[u])
          /\ \A R : Ordered(ev[u], R) => Ordered(Without(old, ev[u]), R)
      BY <1>3, WithoutElements
    <2>2. over \cap ToSet(ev[u]) = {}
      BY <1>3, <1>9, <1>10, <1>13 DEF Apart
    <2>3. Len(Without(old, ev[u])) \in Nat /\ Len(ev[u]) \in Nat /\ Len(ev[u]) <= MaxEvents
      BY <1>3, <2>1
    <2> QED BY <1>1, <2>1, <2>2, <2>3
  <1>14. ToSet(Without(over, pushed)) = (ToSet(ev[t]) \ gone) \cup {new}
    <2>1. new \notin gone
      BY <1>6, <1>11
    <2> QED BY <1>7, <1>8, <1>12, <2>1
  <1>15. ASSUME NEW R, Ordered(ev[t], R), \A e \in ToSet(ev[t]) : <<e, new>> \in R
         PROVE  Ordered(Without(over, pushed), R)
    <2>1. Ordered(kept, R) /\ \A e \in ToSet(kept) : <<e, new>> \in R
      BY <1>7, <1>15
    <2>2. Ordered(pushed, R)
      BY <1>7, <2>1, OrderedAppend DEF pushed
    <2> QED BY <1>12, <2>2
  <1>16. total + b <= MaxReplay + SizeOf(gone)
    <2>1. Sized(gone)
      BY <1>4, <1>11, SizeOfPart
    <2>2. old \in SUBSET gone
      OBVIOUS
    <2> HIDE DEF gone
    <2>3. /\ SizeOf(gone) = SizeOf(old) + SizeOf(gone \ old) /\ SizeOf(old) \in Nat
          /\ SizeOf(gone \ old) \in Nat
      BY <2>1, <2>2, SizeSplit
    <2>4. total \in Nat
      BY <1>3, <1>4, SizeSplit
    <2> QED BY <1>1, <1>5, <2>3, <2>4
  <1> HIDE DEF gone
  <1>17. Pushes(t, b, ev, by, total, gone)
    <2>1. \A u \in Turn : events'[u] = IF u = t THEN Without(over, pushed) ELSE Without(old, ev[u])
      BY <1>2
    <2>2. events' \in [Turn -> Seq(EventRecord)]
      BY <1>2, <1>12, <1>13
    <2>3. ASSUME NEW u \in Turn
          PROVE  /\ ToSet(events'[u]) = (ToSet(ev[u]) \ gone) \cup (IF u = t THEN {new} ELSE {})
                 /\ Len(events'[u]) <= MaxEvents
      BY <2>1, <1>12, <1>13, <1>14
    <2>4. ASSUME NEW u \in Turn, NEW R, Ordered(ev[u], R),
                 u = t => \A e \in ToSet(ev[u]) : <<e, new>> \in R
          PROVE  Ordered(events'[u], R)
      BY <2>1, <2>4, <1>13, <1>15
    <2> QED BY <1>2, <1>6, <1>11, <1>16, <2>2, <2>3, <2>4 DEF Pushes, new
  <1> QED BY <1>17

\* So the counters stay exact.
LEMMA PushKeepsExact ==
    ASSUME NEW t \in Turn, NEW b \in Size, NEW ev, NEW by, NEW total, NEW gone,
           ExactCounts(ev, by, total), Pushes(t, b, ev, by, total, gone)
    PROVE  /\ ExactCounts(events', bytes', replayBytes')
           /\ Retained(events') = (Retained(ev) \ gone) \cup {NewEvent(b)}
  <1> DEFINE new == NewEvent(b)
             R == Retained(ev)
  <1>1. /\ b \in Nat /\ MaxReplay \in Nat /\ new.size = b
    BY ReplayAssumption DEF NewEvent
  <1>2. /\ new \notin R /\ gone \in SUBSET R /\ events' \in [Turn -> Seq(EventRecord)]
        /\ \A u \in Turn :
              /\ ToSet(events'[u]) = (ToSet(ev[u]) \ gone) \cup (IF u = t THEN {new} ELSE {})
              /\ Len(events'[u]) <= MaxEvents
    BY DEF Pushes
  <1>3. /\ Sized(R) /\ R = UNION {ToSet(ev[u]) : u \in Turn}
        /\ \A u \in Turn : ToSet(ev[u]) \subseteq R
    BY RetainedAreEvents DEF ExactCounts, Retained
  <1> HIDE DEF new, R
  <1>4. Retained(events') = (R \ gone) \cup {new}
    BY <1>2, <1>3 DEF Retained
  <1>5. /\ SizeOf(R) = SizeOf(gone) + SizeOf(R \ gone) /\ SizeOf(gone) \in Nat
        /\ SizeOf(R \ gone) \in Nat /\ Sized(R \ gone)
    BY <1>2, <1>3, SizeSplit, SizeOfPart
  <1>6. Sized(Retained(events')) /\ SizeOf(Retained(events')) = b + SizeOf(R \ gone)
    <2>1. new \notin R \ gone /\ new.size \in Nat
      BY <1>1, <1>2
    <2>2. /\ Sized((R \ gone) \cup {new})
          /\ SizeOf((R \ gone) \cup {new}) = new.size + SizeOf(R \ gone)
      BY <1>5, <2>1, SizeAdd
    <2> QED BY <1>1, <1>4, <2>2
  <1>7. replayBytes' = SizeOf(Retained(events')) /\ replayBytes' <= MaxReplay
    <2>1. replayBytes' = SizeOf(R) + b - SizeOf(gone) /\ SizeOf(R) + b <= MaxReplay + SizeOf(gone)
      BY DEF Pushes, ExactCounts, R
    <2> QED BY <1>1, <1>5, <1>6, <2>1
  <1>8. Apart(events')
    <2> SUFFICES ASSUME NEW u \in Turn, NEW v \in Turn, u # v
                 PROVE  ToSet(events'[u]) \cap ToSet(events'[v]) = {}
      BY DEF Apart
    <2>1. ToSet(ev[u]) \cap ToSet(ev[v]) = {}
      BY DEF ExactCounts, Apart
    <2> QED BY <1>2, <1>3, <2>1
  <1>9. ASSUME NEW u \in Turn PROVE bytes'[u] = SizeOf(ToSet(events'[u])) /\ bytes'[u] \in Nat
    <2> DEFINE U == ToSet(ev[u])
               out == gone \cap U
    <2>1. bytes'[u] = by[u] + (IF u = t THEN b ELSE 0) - SizeOf(out) /\ by[u] = SizeOf(U)
      BY DEF Pushes, ExactCounts
    <2>2. Sized(U) /\ U \ out = U \ gone /\ out \in SUBSET U /\ new \notin U \ out
      BY <1>2, <1>3, SizeOfPart
    <2> HIDE DEF U, out
    <2>3. /\ SizeOf(U) = SizeOf(out) + SizeOf(U \ out) /\ SizeOf(out) \in Nat
          /\ SizeOf(U \ out) \in Nat /\ Sized(U \ out)
      BY <2>2, SizeSplit, SizeOfPart
    <2>4. ToSet(events'[u]) = (U \ out) \cup (IF u = t THEN {new} ELSE {})
      BY <1>2, <2>2 DEF U
    <2>5. CASE u = t
      <3>1. SizeOf((U \ out) \cup {new}) = b + SizeOf(U \ out)
        BY <1>1, <2>2, <2>3, SizeAdd
      <3> QED BY <1>1, <2>1, <2>3, <2>4, <2>5, <3>1
    <2>6. CASE u # t
      <3>1. ToSet(events'[u]) = U \ out
        BY <2>4, <2>6
      <3> QED BY <2>1, <2>3, <2>6, <3>1
    <2> QED BY <2>5, <2>6
  <1>10. bytes' \in [Turn -> Nat]
    <2>1. bytes' = [u \in Turn |-> bytes'[u]]
      BY DEF Pushes
    <2> QED BY <1>9, <2>1
  <1>11. ExactCounts(events', bytes', replayBytes')
    BY <1>2, <1>6, <1>7, <1>8, <1>9, <1>10 DEF ExactCounts, Sized
  <1> QED BY <1>4, <1>11 DEF new, R

\* Pruned records take their bytes with them.
LEMMA PruneKeepsExact ==
    ASSUME NEW gone \in SUBSET Turn, IsFiniteSet(gone), ExactCounts(events, bytes, replayBytes)
    PROVE  ExactCounts([u \in Turn |-> IF u \in gone THEN <<>> ELSE events[u]],
                 [u \in Turn |-> IF u \in gone THEN 0 ELSE bytes[u]], Prune(gone))
  <1> DEFINE R == Retained(events)
             Of(s) == UNION {ToSet(events[u]) : u \in s}
             ev == [u \in Turn |-> IF u \in gone THEN <<>> ELSE events[u]]
             by == [u \in Turn |-> IF u \in gone THEN 0 ELSE bytes[u]]
             Sum(s) == SumFunctionOnSet(bytes, s)
  <1>1. /\ events \in [Turn -> Seq(EventRecord)] /\ bytes \in [Turn -> Nat] /\ Apart(events)
        /\ \A u \in Turn : bytes[u] = SizeOf(ToSet(events[u])) /\ Len(events[u]) <= MaxEvents
        /\ replayBytes = SizeOf(R) /\ replayBytes <= MaxReplay
    BY DEF ExactCounts
  <1>2. /\ Sized(R) /\ \A u \in Turn : ToSet(events[u]) \subseteq R /\ bytes[u] \in Nat
        /\ MaxReplay \in Nat /\ MaxEvents \in Nat
    BY <1>1, RetainedAreEvents, ReplayAssumption DEF ExactCounts
  <1> DEFINE T == {s \in SUBSET gone : Sum(s) = SizeOf(Of(s))}
  <1>3. {} \in T
    <2>1. Of({}) = {}
      OBVIOUS
    <2> QED BY <2>1, SumEmpty, SizeEmpty
  <1>4. ASSUME NEW s \in SUBSET gone, s # {}, \A u \in s : s \ {u} \in T PROVE s \in T
    <2>1. PICK u : u \in s
      BY <1>4
    <2> DEFINE r == s \ {u}
               A == Of(s)
               B == ToSet(events[u])
    <2>2. u \in Turn /\ IsFiniteSet(s) /\ \A v \in s : bytes[v] \in Nat
      BY <1>2, <2>1, FS_Subset
    <2>3. Sum(s) = bytes[u] + Sum(r)
      BY <2>1, <2>2, SumRemove
    <2>4. Sum(r) = SizeOf(Of(r))
      BY <1>4, <2>1
    <2>5. B \in SUBSET A /\ A \in SUBSET R
      BY <1>2, <2>1
    <2>6. A \ B = Of(r)
      <3>1. \A v \in s : v # u => B \cap ToSet(events[v]) = {}
        BY <1>1, <2>2 DEF Apart
      <3> QED BY <2>1, <3>1
    <2>7. bytes[u] = SizeOf(B)
      BY <1>1, <2>2
    <2> HIDE DEF A, B, r, Sum, Of
    <2>8. SizeOf(A) = SizeOf(B) + SizeOf(A \ B)
      BY <1>2, <2>5, SizeOfPart, SizeSplit
    <2>9. Sum(s) = SizeOf(A)
      BY <2>3, <2>4, <2>6, <2>7, <2>8
    <2> QED BY <2>9 DEF A
  <1>5. Sum(gone) = SizeOf(Of(gone))
    <2>1. SUBSET gone \subseteq T
      <3> HIDE DEF T
      <3> QED BY <1>3, <1>4, SetInduction
    <2> QED BY <2>1
  <1> DEFINE G == Of(gone)
  <1>6. ev \in [Turn -> Seq(EventRecord)] /\ by \in [Turn -> Nat]
    BY <1>1
  <1>7. ASSUME NEW u \in Turn
        PROVE  /\ ev[u] = IF u \in gone THEN <<>> ELSE events[u]
               /\ by[u] = IF u \in gone THEN 0 ELSE bytes[u]
    OBVIOUS
  <1>8. ToSet(<<>>) = {} /\ Len(<<>>) = 0
    BY DEF ToSet
  <1>9. G \in SUBSET R
    BY <1>2
  <1> HIDE DEF ev, by
  <1>10. Retained(ev) = R \ G
    <2>1. ASSUME NEW u \in Turn PROVE ToSet(ev[u]) = IF u \in gone THEN {} ELSE ToSet(events[u])
      BY <1>7, <1>8
    <2>2. ASSUME NEW u \in Turn, u \notin gone PROVE ToSet(events[u]) \cap G = {}
      BY <1>1, <2>2 DEF Apart
    <2> QED BY <1>1, <2>1, <2>2 DEF Retained
  <1> HIDE DEF G, R
  <1>11. /\ SizeOf(R) = SizeOf(G) + SizeOf(R \ G) /\ SizeOf(G) \in Nat /\ SizeOf(R \ G) \in Nat
         /\ Sized(R \ G)
    BY <1>2, <1>9, SizeSplit, SizeOfPart
  <1>12. Prune(gone) = SizeOf(Retained(ev)) /\ Prune(gone) <= MaxReplay
    <2>1. Prune(gone) = SizeOf(R) - SizeOf(G)
      BY <1>1, <1>5 DEF Prune, G
    <2> QED BY <1>1, <1>2, <1>10, <1>11, <2>1
  <1>13. Apart(ev)
    BY <1>1, <1>7, <1>8 DEF Apart
  <1>14. \A u \in Turn : by[u] = SizeOf(ToSet(ev[u])) /\ Len(ev[u]) <= MaxEvents
    <2> SUFFICES ASSUME NEW u \in Turn PROVE by[u] = SizeOf(ToSet(ev[u])) /\ Len(ev[u]) <= MaxEvents
      OBVIOUS
    <2>1. CASE u \in gone
      <3>1. ev[u] = <<>> /\ by[u] = 0
        BY <1>7, <2>1
      <3>2. ToSet(ev[u]) = {} /\ Len(ev[u]) = 0
        BY <1>8, <3>1
      <3>3. by[u] = SizeOf(ToSet(ev[u]))
        BY <3>1, <3>2, SizeEmpty, Zenon
      <3>4. 0 <= MaxEvents
        BY <1>2
      <3> QED BY <3>2, <3>3, <3>4
    <2>2. CASE u \notin gone
      BY <1>1, <1>7, <2>2
    <2> QED BY <2>1, <2>2
  <1>15. ExactCounts(ev, by, Prune(gone))
    BY <1>6, <1>10, <1>11, <1>12, <1>13, <1>14 DEF ExactCounts, Sized
  <1> QED BY <1>15 DEF ev, by

-------------------------------------------------------------------------------
(* The inductive invariant *)

\* Events in the order of their ids.
ById == {p \in EventRecord \X EventRecord : p[1].id < p[2].id}

\* The turns that were created: finitely many.
Started == {t \in Turn : status[t] # "absent"}

\* api.rs:1805-1868: the counters are exact, and the lists and channels in order.
StoreInv ==
    /\ ExactCounts(events, bytes, replayBytes)
    /\ IsFiniteSet(Started)
    /\ \A t \in Turn : Increasing(channel[t]) /\ Ordered(events[t], ById)

\* What a subscriber has received, and the retained events of its turn.
Seen(s) == ToSet(received[s])
IdsOf(s) == {e.id : e \in ToSet(events[Follows[s]])}

\* What the channel still has for a stream, lost or not.
Coming(s) ==
    LET sentTo == channel[Follows[s]] IN {sentTo[k] : k \in cursor[s] + 1 .. Len(sentTo)}

\* What a subscriber has not got of the retained events comes, and after what it has got.
StreamInv(s) ==
    /\ Increasing(received[s]) /\ Increasing(replay[s])
    /\ \A i \in Seen(s), j \in ToSet(replay[s]) : i < j
    /\ from[s] = 0 \/ from[s] \in Seen(s)
    /\ conn[s] # "off" =>
        /\ cursor[s] <= Len(channel[Follows[s]])
        /\ \A i \in Seen(s) \cup ToSet(replay[s]), j \in Coming(s) : i < j
        /\ IdsOf(s) \subseteq Seen(s) \cup lagged[s] \cup ToSet(replay[s]) \cup Coming(s)
    /\ conn[s] = "off" =>
        /\ replay[s] = <<>>
        /\ \A j \in IdsOf(s) \ (Seen(s) \cup lagged[s]) : \A i \in Seen(s) : i < j

\* The inductive invariant.
EventInv == EventTypeOK /\ StoreInv /\ \A s \in Subscriber : StreamInv(s)

\* A list of the elements of a set is a list over it.
LEMMA ListOver ==
    ASSUME NEW S, NEW q \in Seq(S), NEW U, ToSet(q) \subseteq U PROVE q \in Seq(U)
  BY DEF ToSet

\* The events that were pushed.
EventRecords == [id : EventId, size : Size]

\* What a turn gets of a push: nothing but perhaps the new event, at the end of its channel.
Grows(u, b) ==
    \/ channel'[u] = channel[u] /\ ToSet(events'[u]) \subseteq ToSet(events[u])
    \/ /\ channel'[u] = Append(channel[u], next)
       /\ ToSet(events'[u]) \subseteq ToSet(events[u]) \cup {NewEvent(b)}

\* The store after a push of any event, oversized or not.
LEMMA PushStep ==
    ASSUME EventTypeOK, NEW t \in Turn, NEW b \in Size, NEW ev, NEW by, NEW total,
           ExactCounts(ev, by, total),
           \A u \in Turn : ToSet(ev[u]) \subseteq ToSet(events[u]) /\ Ordered(ev[u], ById),
           \A u \in Turn : Increasing(channel[u]),
           PushEvent(t, b, ev, by, total, channel)
    PROVE  /\ next' = next + 1
           /\ ExactCounts(events', bytes', replayBytes')
           /\ events' \in [Turn -> Seq(EventRecords')] /\ bytes' \in [Turn -> Nat]
           /\ replayBytes' \in 0 .. MaxReplay
           /\ channel' \in [Turn -> Seq(EventId')]
           /\ \A u \in Turn : Increasing(channel'[u]) /\ Ordered(events'[u], ById)
           /\ \A u \in Turn : Grows(u, b)
  <1>1. next' = next + 1 /\ next \in Nat /\ next # 0 /\ b \in Nat
    BY ReplayAssumption DEF PushEvent, EventTypeOK
  <1>2. /\ ev \in [Turn -> Seq(EventRecord)] /\ by \in [Turn -> Nat] /\ total = SizeOf(Retained(ev))
        /\ total <= MaxReplay
        /\ IsFiniteSet(Retained(ev))
    BY DEF ExactCounts
  <1>3. /\ events \in [Turn -> Seq(EventRecords)] /\ channel \in [Turn -> Seq(EventId)]
    BY DEF EventTypeOK, EventRecords
  <1>4. ASSUME NEW u \in Turn PROVE \A e \in ToSet(ev[u]) : e \in EventRecords
    <2>1. events[u] \in Seq(EventRecords)
      BY <1>3
    <2>2. ToSet(events[u]) \subseteq EventRecords
      BY <2>1 DEF ToSet
    <2> QED BY <2>2
  <1>5. EventRecords \subseteq EventRecords' /\ EventId \subseteq EventId'
    BY <1>1 DEF EventRecords, EventId
  <1>6. CASE b > MaxEventBytes
    <2>1. events' = ev /\ bytes' = by /\ replayBytes' = total /\ channel' = channel
      BY <1>6 DEF PushEvent
    <2>2. events' \in [Turn -> Seq(EventRecords')]
      <3>1. ASSUME NEW u \in Turn PROVE ev[u] \in Seq(EventRecords')
        BY <1>2, <1>4, <1>5, ListOver
      <3> QED BY <1>2, <2>1, <3>1
    <2>3. channel' \in [Turn -> Seq(EventId')]
      BY <1>3, <1>5, <2>1
    <2>4. replayBytes' \in 0 .. MaxReplay
      BY <2>1, ExactTotal
    <2> QED BY <1>1, <1>2, <2>1, <2>2, <2>3, <2>4 DEF Grows
  <1>7. CASE ~ (b > MaxEventBytes)
    <2>1. b <= MaxEventBytes
      BY <1>1, <1>7, ReplayAssumption
    <2>2. ASSUME NEW e \in Retained(ev) PROVE e.id < next
      <3>1. PICK u \in Turn : e \in ToSet(ev[u])
        BY <1>2, RetainedAreEvents
      <3> QED BY <1>1, <1>4, <3>1 DEF EventRecords, EventId
    <2>3. PICK gone : Pushes(t, b, ev, by, total, gone)
      BY <1>1, <2>1, <2>2, PushedEvents
    <2>4. ExactCounts(events', bytes', replayBytes')
      BY <2>3, PushKeepsExact
    <2>5. channel' = [channel EXCEPT ![t] = Append(@, next)]
      BY <1>7 DEF PushEvent
    <2>6. ASSUME NEW u \in Turn
          PROVE  /\ ToSet(events'[u])
                      \subseteq ToSet(events[u]) \cup (IF u = t THEN {NewEvent(b)} ELSE {})
                 /\ events'[u] \in Seq(EventRecord)
      BY <2>3 DEF Pushes
    <2>7. ASSUME NEW u \in Turn PROVE events'[u] \in Seq(EventRecords')
      <3>1. NewEvent(b) \in EventRecords'
        BY <1>1 DEF NewEvent, EventRecords, EventId
      <3>2. ToSet(events[u]) \subseteq EventRecords'
        BY <1>3, <1>5 DEF ToSet
      <3>3. ToSet(events'[u]) \subseteq EventRecords'
        BY <2>6, <3>1, <3>2
      <3> QED BY <2>6, <3>3, ListOver
    <2>8. events' \in [Turn -> Seq(EventRecords')]
      BY <2>4, <2>7 DEF ExactCounts
    <2>9. channel' \in [Turn -> Seq(EventId')]
      <3>1. next \in EventId'
        BY <1>1 DEF EventId
      <3> QED BY <1>3, <1>5, <2>5, <3>1
    <2>10. replayBytes' \in 0 .. MaxReplay /\ bytes' \in [Turn -> Nat]
      BY <2>4, ExactTotal DEF ExactCounts
    <2>11. ASSUME NEW u \in Turn PROVE Increasing(channel'[u])
      <3>1. CASE u = t
        <4>1. channel'[u] = Append(channel[u], next) /\ channel[u] \in Seq(EventId)
          BY <1>3, <2>5, <3>1
        <4>2. \A i \in ToSet(channel[u]) : i \in Nat /\ i < next
          BY <1>1, <4>1 DEF ToSet, EventId
        <4> QED BY <1>1, <4>1, <4>2, OrderedAppend DEF Increasing
      <3>2. CASE u # t
        BY <1>3, <2>5, <3>2
      <3> QED BY <3>1, <3>2
    <2>12. ASSUME NEW u \in Turn PROVE Ordered(events'[u], ById)
      <3>1. ASSUME NEW e \in ToSet(ev[u]) PROVE <<e, NewEvent(b)>> \in ById
        <4>1. e \in EventRecord /\ NewEvent(b) \in EventRecord
          BY <1>2, <2>3 DEF Pushes, ToSet
        <4>2. e.id < NewEvent(b).id
          BY <1>2, <2>2, RetainedAreEvents DEF NewEvent
        <4> QED BY <4>1, <4>2 DEF ById
      <3> QED BY <2>3, <3>1 DEF Pushes
    <2>13. ASSUME NEW u \in Turn PROVE Grows(u, b)
      BY <1>3, <2>5, <2>6 DEF Grows
    <2> QED BY <1>1, <2>4, <2>8, <2>9, <2>10, <2>11, <2>12, <2>13
  <1> QED BY <1>6, <1>7

\* A push brings the streams nothing that they had, and what it adds comes last.
LEMMA StreamsSurvivePush ==
    ASSUME EventTypeOK, NEW s \in Subscriber, StreamInv(s), UNCHANGED streams, NEW b \in Size,
           Grows(Follows[s], b)
    PROVE  StreamInv(s)'
  <1> DEFINE u == Follows[s]
             ch == channel[u]
             new == channel'[u]
             N == Len(ch)
             c == cursor[s]
  <1>1. u \in Turn /\ next \in Nat
    BY ReplayAssumption DEF EventTypeOK
  <1>2. ch \in Seq(EventId) /\ N \in Nat /\ c \in Nat
    BY <1>1 DEF EventTypeOK
  <1>3. /\ received' = received /\ replay' = replay /\ conn' = conn /\ cursor' = cursor
        /\ from' = from
        /\ lagged' = lagged
    BY DEF streams
  <1>4. Seen(s)' = Seen(s) /\ Seen(s) \subseteq EventId /\ ToSet(replay[s]) \subseteq EventId
    BY <1>3 DEF Seen, ToSet, EventTypeOK
  <1>5. \A i \in EventId : i < next
    BY <1>1 DEF EventId
  <1>6. Coming(s) = {ch[k] : k \in c + 1 .. N} /\ Coming(s)' = {new[k] : k \in c + 1 .. Len(new)}
    BY <1>3 DEF Coming
  <1>7. /\ N <= Len(new) /\ Len(new) \in Nat
        /\ \A j \in Coming(s)' : j \in Coming(s) \/ j = next
        /\ conn[s] # "off" => Coming(s) \subseteq Coming(s)'
        /\ conn[s] # "off" /\ new # ch => next \in Coming(s)'
        /\ IdsOf(s)' \subseteq IdsOf(s) \cup (IF new = ch THEN {} ELSE {next})
    <2>1. CASE new = ch /\ ToSet(events'[u]) \subseteq ToSet(events[u])
      BY <1>2, <1>6, <2>1 DEF IdsOf
    <2>2. CASE /\ new = Append(ch, next)
               /\ ToSet(events'[u]) \subseteq ToSet(events[u]) \cup {NewEvent(b)}
      <3>1. Len(new) = N + 1 /\ new[N + 1] = next /\ new # ch /\ \A k \in 1 .. N : new[k] = ch[k]
        BY <1>2, <2>2
      <3> HIDE DEF new, ch, N, c
      <3>2. ASSUME NEW k \in c + 1 .. Len(new)
            PROVE  (k \in c + 1 .. N /\ new[k] = ch[k]) \/ new[k] = next
        BY <1>2, <3>1
      <3>3. \A j \in Coming(s)' : j \in Coming(s) \/ j = next
        BY <1>6, <3>2
      <3>4. c <= N => Coming(s) \subseteq Coming(s)' /\ next \in Coming(s)'
        <4> SUFFICES ASSUME c <= N PROVE Coming(s) \subseteq Coming(s)' /\ next \in Coming(s)'
          OBVIOUS
        <4>1. ASSUME NEW k \in c + 1 .. N PROVE k \in c + 1 .. Len(new) /\ new[k] = ch[k]
          BY <1>2, <3>1
        <4>2. N + 1 \in c + 1 .. Len(new)
          BY <1>2, <3>1
        <4> QED BY <1>6, <3>1, <4>1, <4>2
      <3>5. conn[s] # "off" => c <= N
        BY DEF StreamInv, c, N, ch
      <3>6. IdsOf(s)' \subseteq IdsOf(s) \cup {next}
        <4>1. NewEvent(b).id = next
          BY DEF NewEvent
        <4> QED BY <2>2, <4>1 DEF IdsOf
      <3> QED BY <1>2, <3>1, <3>3, <3>4, <3>5, <3>6
    <2> QED BY <2>1, <2>2 DEF Grows
  <1>8. CASE conn[s] # "off"
    <2>1. c <= Len(new)
      BY <1>2, <1>7, <1>8 DEF StreamInv
    <2>2. \A i \in Seen(s) \cup ToSet(replay[s]), j \in Coming(s)' : i < j
      BY <1>4, <1>5, <1>7, <1>8 DEF StreamInv
    <2>3. IdsOf(s)' \subseteq Seen(s) \cup lagged[s] \cup ToSet(replay[s]) \cup Coming(s)'
      BY <1>7, <1>8 DEF StreamInv
    <2> QED BY <1>3, <1>4, <1>8, <2>1, <2>2, <2>3 DEF StreamInv
  <1>9. CASE conn[s] = "off"
    <2>1. \A j \in IdsOf(s)' \ (Seen(s) \cup lagged[s]) : \A i \in Seen(s) : i < j
      BY <1>4, <1>5, <1>7, <1>9 DEF StreamInv
    <2> QED BY <1>3, <1>4, <1>9, <2>1 DEF StreamInv
  <1> QED BY <1>8, <1>9

\* So a push keeps the invariant, whatever it is a part of.
LEMMA PushKeeps ==
    ASSUME EventInv, NEW t \in Turn, NEW b \in Size, NEW ev, NEW by, NEW total,
           ExactCounts(ev, by, total),
           \A u \in Turn : ToSet(ev[u]) \subseteq ToSet(events[u]) /\ Ordered(ev[u], ById),
           PushEvent(t, b, ev, by, total, channel),
           status' \in [Turn -> {"absent", "running", "terminal", "pruned"}],
           Started' \subseteq Started \cup {t}, last' \in [Turn -> 0 .. next], UNCHANGED streams
    PROVE  EventInv'
  <1>1. EventTypeOK /\ StoreInv
    BY DEF EventInv
  <1>2. /\ next' = next + 1
        /\ ExactCounts(events', bytes', replayBytes')
        /\ events' \in [Turn -> Seq(EventRecords')] /\ bytes' \in [Turn -> Nat]
        /\ replayBytes' \in 0 .. MaxReplay
        /\ channel' \in [Turn -> Seq(EventId')]
        /\ \A u \in Turn : Increasing(channel'[u]) /\ Ordered(events'[u], ById)
        /\ \A u \in Turn : Grows(u, b)
    BY <1>1, PushStep DEF StoreInv
  <1>3. EventTypeOK'
    <2>1. next \in Nat /\ next' \in Nat \ {0} /\ next' - 1 = next
      <3>1. next \in Nat
        BY <1>1 DEF EventTypeOK
      <3>2. next' = next + 1
        BY <1>2
      <3> QED BY <3>1, <3>2
    <2>2. EventId \subseteq EventId' /\ 0 .. next - 1 \subseteq 0 .. next' - 1
      <3>1. EventId' = 1 .. next
        BY <2>1 DEF EventId
      <3>2. 1 .. next - 1 \subseteq 1 .. next /\ 0 .. next - 1 \subseteq 0 .. next
        BY <2>1
      <3> QED BY <2>1, <3>1, <3>2 DEF EventId
    <2>3. /\ conn' \in [Subscriber -> {"off", "live", "replay", "ended"}]
          /\ cursor' \in [Subscriber -> Nat]
          /\ received' = received /\ replay' = replay /\ from' = from /\ lagged' = lagged
      BY <1>1 DEF streams, EventTypeOK
    <2>4. replay' \in [Subscriber -> Seq(EventId')] /\ received' \in [Subscriber -> Seq(EventId')]
      BY <1>1, <2>2, <2>3 DEF EventTypeOK
    <2>5. from' \in [Subscriber -> 0 .. next' - 1] /\ lagged' \in [Subscriber -> SUBSET EventId']
      BY <1>1, <2>2, <2>3 DEF EventTypeOK
    <2>6. last' \in [Turn -> 0 .. next' - 1]
      BY <2>1
    <2> QED BY <1>2, <2>1, <2>3, <2>4, <2>5, <2>6 DEF EventTypeOK, EventRecords
  <1>4. StoreInv'
    <2>1. IsFiniteSet(Started')
      BY <1>1, FS_AddElement, FS_Subset DEF StoreInv
    <2> QED BY <1>2, <2>1 DEF StoreInv
  <1>5. ASSUME NEW s \in Subscriber PROVE StreamInv(s)'
    BY <1>1, <1>2, StreamsSurvivePush, ReplayAssumption DEF EventInv
  <1> QED BY <1>3, <1>4, <1>5 DEF EventInv

\* A turn that is created, with the pruning before it.
LEMMA CreateTurnKeeps ==
    ASSUME EventInv, NEW t \in Turn, NEW b \in Size, CreateTurn(t, b) PROVE EventInv'
  <1> DEFINE present == {u \in Turn : status[u] \in {"running", "terminal"}}
             gone == IF Cardinality(present) >= MaxTurns
                     THEN {u \in Turn : status[u] = "terminal"} ELSE {}
             ev == [u \in Turn |-> IF u \in gone THEN <<>> ELSE events[u]]
             by == [u \in Turn |-> IF u \in gone THEN 0 ELSE bytes[u]]
  <1>1. /\ status' = [u \in Turn |-> IF u = t THEN "running"
                                     ELSE IF u \in gone THEN "pruned" ELSE status[u]]
        /\ PushEvent(t, b, ev, by, Prune(gone), channel)
        /\ UNCHANGED <<last, streams>>
    BY DEF CreateTurn
  <1>2. EventTypeOK /\ StoreInv
    BY DEF EventInv
  <1>3. gone \in SUBSET Turn /\ gone \subseteq Started
    BY DEF Started
  <1>4. IsFiniteSet(gone)
    BY <1>2, <1>3, FS_Subset DEF StoreInv
  <1> HIDE DEF gone
  <1>5. ExactCounts(ev, by, Prune(gone))
    BY <1>2, <1>3, <1>4, PruneKeepsExact DEF StoreInv
  <1>6. ASSUME NEW u \in Turn PROVE ToSet(ev[u]) \subseteq ToSet(events[u]) /\ Ordered(ev[u], ById)
    BY <1>2 DEF StoreInv, ToSet, Ordered
  <1>7. /\ status' \in [Turn -> {"absent", "running", "terminal", "pruned"}]
        /\ Started' \subseteq Started \cup {t}
    BY <1>1, <1>2, <1>3 DEF EventTypeOK, Started
  <1>8. last' \in [Turn -> 0 .. next]
    BY <1>1, <1>2 DEF EventTypeOK
  <1> HIDE DEF ev, by
  <1> QED BY <1>1, <1>5, <1>6, <1>7, <1>8, PushKeeps

\* The events of a running turn.
LEMMA TurnEventKeeps ==
    ASSUME EventInv, NEW t \in Turn, NEW b \in Size, TurnEvent(t, b) PROVE EventInv'
  <1>1. PushEvent(t, b, events, bytes, replayBytes, channel) /\ UNCHANGED <<status, last, streams>>
    BY DEF TurnEvent
  <1>2. ExactCounts(events, bytes, replayBytes) /\ \A u \in Turn : Ordered(events[u], ById)
    BY DEF EventInv, StoreInv
  <1>3. /\ status' \in [Turn -> {"absent", "running", "terminal", "pruned"}]
        /\ last' \in [Turn -> 0 .. next]
        /\ Started' = Started
    BY <1>1 DEF EventInv, EventTypeOK, Started
  <1> QED BY <1>1, <1>2, <1>3, PushKeeps

\* The end of a turn.
LEMMA TerminalizeKeeps ==
    ASSUME EventInv, NEW t \in Turn, NEW b \in Size, Terminalize(t, b) PROVE EventInv'
  <1>1. /\ PushEvent(t, b, events, bytes, replayBytes, channel) /\ UNCHANGED streams
        /\ status' = [status EXCEPT ![t] = "terminal"]
        /\ last' = [last EXCEPT ![t] = IF b > MaxEventBytes THEN 0 ELSE next]
    BY DEF Terminalize
  <1>2. ExactCounts(events, bytes, replayBytes) /\ \A u \in Turn : Ordered(events[u], ById)
    BY DEF EventInv, StoreInv
  <1>3. /\ status' \in [Turn -> {"absent", "running", "terminal", "pruned"}]
        /\ last' \in [Turn -> 0 .. next]
        /\ Started' \subseteq Started \cup {t}
    BY <1>1 DEF EventInv, EventTypeOK, Started
  <1> QED BY <1>1, <1>2, <1>3, PushKeeps

-------------------------------------------------------------------------------
(* The streams *)

\* Last-Event-ID is the latest of the events that a subscriber has.
LEMMA LastOfSeen ==
    ASSUME EventTypeOK, NEW s \in Subscriber, Increasing(received[s])
    PROVE  /\ LastOf(received[s]) \in 0 .. next - 1
           /\ LastOf(received[s]) = 0 \/ LastOf(received[s]) \in Seen(s)
           /\ \A i \in Seen(s) : i <= LastOf(received[s])
  <1> DEFINE q == received[s]
             N == Len(q)
  <1>1. q \in Seq(EventId) /\ N \in Nat /\ next \in Nat \ {0} /\ DOMAIN q = 1 .. N
    BY DEF EventTypeOK
  <1>2. CASE q = <<>>
    <2>1. LastOf(q) = 0 /\ Seen(s) = {}
      BY <1>2 DEF LastOf, Seen, ToSet
    <2> QED BY <1>1, <2>1
  <1>3. CASE q # <<>>
    <2>1. LastOf(q) = q[N] /\ N \in 1 .. N
      BY <1>1, <1>3 DEF LastOf, Last
    <2>2. \A k \in 1 .. N : q[k] \in EventId /\ (k = N \/ k < N)
      BY <1>1
    <2>3. \A k \in 1 .. N : k < N => q[k] < q[N]
      BY <1>1, <2>1 DEF Increasing, Ordered
    <2>4. \A k \in 1 .. N : q[k] <= q[N]
      BY <2>1, <2>2, <2>3 DEF EventId
    <2> QED BY <1>1, <2>1, <2>2, <2>4 DEF Seen, ToSet, EventId
  <1> QED BY <1>2, <1>3

\* The type of one stream.
StreamType(s) ==
    /\ conn[s] \in {"off", "live", "replay", "ended"} /\ replay[s] \in Seq(EventId)
    /\ cursor[s] \in Nat
    /\ from[s] \in 0 .. next - 1 /\ received[s] \in Seq(EventId) /\ lagged[s] \subseteq EventId

\* Nothing but the stream of s changes.
OnlyStream(s) ==
    /\ UNCHANGED <<store, turns>>
    /\ conn' = [conn EXCEPT ![s] = conn'[s]] /\ replay' = [replay EXCEPT ![s] = replay'[s]]
    /\ cursor' = [cursor EXCEPT ![s] = cursor'[s]] /\ from' = [from EXCEPT ![s] = from'[s]]
    /\ received' = [received EXCEPT ![s] = received'[s]]
    /\ lagged' = [lagged EXCEPT ![s] = lagged'[s]]

\* A step of one stream leaves the store and the other streams alone.
LEMMA StreamFrame ==
    ASSUME EventInv, NEW s \in Subscriber, OnlyStream(s), StreamType(s)', StreamInv(s)'
    PROVE  EventInv'
  <1>1. EventTypeOK /\ StoreInv
    BY DEF EventInv
  <1>2. /\ next' = next /\ events' = events /\ bytes' = bytes /\ replayBytes' = replayBytes
        /\ status' = status /\ channel' = channel /\ last' = last /\ EventId' = EventId
    BY DEF OnlyStream, store, turns, EventId
  <1>3. StoreInv'
    BY <1>1, <1>2 DEF StoreInv, Started
  <1>4. /\ conn'[s] \in {"off", "live", "replay", "ended"} /\ replay'[s] \in Seq(EventId)
        /\ cursor'[s] \in Nat
        /\ from'[s] \in 0 .. next - 1 /\ received'[s] \in Seq(EventId)
        /\ lagged'[s] \subseteq EventId
    BY <1>2 DEF StreamType
  <1>5. EventTypeOK'
    <2>1. /\ conn' \in [Subscriber -> {"off", "live", "replay", "ended"}]
          /\ cursor' \in [Subscriber -> Nat]
      BY <1>1, <1>4 DEF EventTypeOK, OnlyStream
    <2>2. replay' \in [Subscriber -> Seq(EventId)] /\ received' \in [Subscriber -> Seq(EventId)]
      BY <1>1, <1>4 DEF EventTypeOK, OnlyStream
    <2>3. from' \in [Subscriber -> 0 .. next - 1] /\ lagged' \in [Subscriber -> SUBSET EventId]
      BY <1>1, <1>4 DEF EventTypeOK, OnlyStream
    <2> QED BY <1>1, <1>2, <2>1, <2>2, <2>3 DEF EventTypeOK
  <1>6. ASSUME NEW v \in Subscriber PROVE StreamInv(v)'
    <2>1. CASE v = s
      BY <2>1
    <2>2. CASE v # s
      <3>1. StreamInv(v)
        BY DEF EventInv
      <3>2. /\ conn'[v] = conn[v] /\ replay'[v] = replay[v] /\ cursor'[v] = cursor[v]
            /\ from'[v] = from[v] /\ received'[v] = received[v] /\ lagged'[v] = lagged[v]
        BY <1>1, <2>2 DEF EventTypeOK, OnlyStream
      <3>3. Seen(v)' = Seen(v) /\ IdsOf(v)' = IdsOf(v) /\ Coming(v)' = Coming(v)
        BY <1>2, <3>2 DEF Seen, IdsOf, Coming
      <3> QED BY <1>2, <3>1, <3>2, <3>3 DEF StreamInv
    <2> QED BY <2>1, <2>2
  <1> QED BY <1>3, <1>5, <1>6 DEF EventInv

\* The ids of the retained events of a turn grow.
LEMMA IdsOfEvents ==
    ASSUME EventInv, NEW s \in Subscriber
    PROVE  /\ Ids(Follows[s]) \in Seq(EventId) /\ ToSet(Ids(Follows[s])) = IdsOf(s)
           /\ Increasing(Ids(Follows[s])) /\ IdsOf(s) \subseteq EventId
  <1> DEFINE t == Follows[s]
             q == events[t]
             r == Ids(t)
  <1>1. t \in Turn /\ next \in Nat
    BY ReplayAssumption DEF EventInv, EventTypeOK
  <1>2. q \in Seq(EventRecords) /\ Ordered(q, ById)
    BY <1>1 DEF EventInv, EventTypeOK, StoreInv, EventRecords
  <1>3. r = [k \in DOMAIN q |-> q[k].id]
    BY DEF Ids
  <1> HIDE DEF q, r, t
  <1>4. \A k \in DOMAIN q : q[k].id \in EventId
    <2>1. \A k \in DOMAIN q : q[k] \in EventRecords
      BY <1>2
    <2> QED BY <2>1 DEF EventRecords
  <1>5. DOMAIN q = 1 .. Len(q) /\ Len(q) \in Nat
    BY <1>2
  <1>6. r \in Seq(EventId)
    BY <1>3, <1>4, <1>5
  <1>7. DOMAIN r = DOMAIN q /\ \A k \in DOMAIN q : r[k] = q[k].id
    BY <1>3
  <1>8. Increasing(r)
    <2> SUFFICES ASSUME NEW i \in DOMAIN q, NEW j \in DOMAIN q, i < j
                 PROVE  <<r[i], r[j]>> \in {p \in Nat \X Nat : p[1] < p[2]}
      BY <1>7 DEF Increasing, Ordered
    <2>1. <<q[i], q[j]>> \in ById
      BY <1>2 DEF Ordered
    <2>2. q[i].id < q[j].id
      BY <2>1 DEF ById
    <2> QED BY <1>4, <1>7, <2>2 DEF EventId
  <1>9. ToSet(r) = IdsOf(s)
    BY <1>7 DEF ToSet, IdsOf, q, t
  <1>10. ToSet(r) \subseteq EventId
    BY <1>4, <1>7 DEF ToSet
  <1> QED BY <1>6, <1>8, <1>9, <1>10 DEF r, t

\* What the type says of one stream.
LEMMA StreamTypes ==
    ASSUME EventInv, NEW s \in Subscriber
    PROVE  /\ StreamType(s) /\ StreamInv(s) /\ Follows[s] \in Turn /\ next \in Nat \ {0}
           /\ channel[Follows[s]] \in Seq(EventId) /\ Increasing(channel[Follows[s]])
           /\ Seen(s) \subseteq EventId /\ ToSet(replay[s]) \subseteq EventId
           /\ EventId \subseteq Nat
           /\ Coming(s) \subseteq EventId
  <1>1. StreamType(s) /\ StreamInv(s) /\ Follows[s] \in Turn /\ next \in Nat \ {0}
    BY ReplayAssumption DEF EventInv, EventTypeOK, StreamType
  <1>2. channel[Follows[s]] \in Seq(EventId) /\ Increasing(channel[Follows[s]])
    BY <1>1 DEF EventInv, EventTypeOK, StoreInv
  <1>3. Seen(s) \subseteq EventId /\ ToSet(replay[s]) \subseteq EventId
    BY <1>1 DEF StreamType, Seen, ToSet
  <1>4. Coming(s) \subseteq EventId
    <2>1. \A k \in cursor[s] + 1 .. Len(channel[Follows[s]]) : k \in 1 .. Len(channel[Follows[s]])
      BY <1>1, <1>2 DEF StreamType
    <2>2. \A k \in 1 .. Len(channel[Follows[s]]) : channel[Follows[s]][k] \in EventId
      BY <1>2
    <2> QED BY <2>1, <2>2 DEF Coming
  <1> QED BY <1>1, <1>2, <1>3, <1>4 DEF EventId

\* api.rs:696-723: the replay has what is after Last-Event-ID and the channel what comes.
LEMMA SubscribeKeeps == ASSUME EventInv, NEW s \in Subscriber, Subscribe(s) PROVE EventInv'
  <1> DEFINE t == Follows[s]
             seen == LastOf(received[s])
             K == seen + 1 .. next - 1
             q == Filter(Ids(t), K)
  <1>1. EventTypeOK /\ StreamType(s) /\ StreamInv(s) /\ t \in Turn /\ next \in Nat \ {0}
    BY StreamTypes DEF EventInv
  <1>2. /\ conn[s] = "off" /\ UNCHANGED <<store, turns, received, lagged>>
        /\ conn' = [conn EXCEPT ![s] = IF status[t] = "terminal" THEN "replay" ELSE "live"]
        /\ from' = [from EXCEPT ![s] = seen] /\ replay' = [replay EXCEPT ![s] = q]
        /\ cursor' = [cursor EXCEPT ![s] = Len(channel[t])]
    BY DEF Subscribe, Replay, Joins
  <1>3. /\ seen \in 0 .. next - 1 /\ (seen = 0 \/ seen \in Seen(s))
        /\ \A i \in Seen(s) : i <= seen
    BY <1>1, LastOfSeen DEF StreamInv
  <1>4. /\ Ids(t) \in Seq(EventId) /\ ToSet(Ids(t)) = IdsOf(s) /\ Increasing(Ids(t))
        /\ IdsOf(s) \subseteq EventId
    BY IdsOfEvents
  <1> HIDE DEF t, seen, K
  <1>5. q \in Seq(EventId)
    <2>1. q \in Seq(EventId \cap K)
      BY <1>4, FilterType
    <2> HIDE DEF q
    <2> QED BY <2>1
  <1>6. ToSet(q) = IdsOf(s) \cap K /\ Increasing(q)
    BY <1>4, FilterElements, FilterOrdered DEF Increasing
  <1> HIDE DEF q
  <1>7. /\ conn'[s] \in {"live", "replay"} /\ replay'[s] = q /\ from'[s] = seen
        /\ received'[s] = received[s]
        /\ lagged'[s] = lagged[s] /\ cursor'[s] = Len(channel[t]) /\ Len(channel[t]) \in Nat
        /\ channel' = channel /\ events' = events /\ next' = next
    BY <1>1, <1>2 DEF EventTypeOK, store, turns
  <1>8. Seen(s)' = Seen(s) /\ IdsOf(s)' = IdsOf(s) /\ EventId' = EventId
    BY <1>7 DEF Seen, IdsOf, EventId
  <1>9. Coming(s)' = {}
    BY <1>7 DEF Coming, t
  <1>10. StreamType(s)'
    BY <1>1, <1>3, <1>5, <1>7, <1>8 DEF StreamType
  <1>11. ASSUME NEW i \in Seen(s), NEW j \in IdsOf(s) \cap K PROVE i < j
    BY <1>1, <1>3, <1>4, StreamTypes DEF K
  <1>12. ASSUME NEW j \in IdsOf(s), j \notin Seen(s) \cup lagged[s] PROVE j \in K
    <2>1. \A i \in Seen(s) : i < j
      BY <1>1, <1>2, <1>12 DEF StreamInv
    <2>2. j \in 1 .. next - 1
      BY <1>4 DEF EventId
    <2>3. seen < j
      BY <1>3, <2>1, <2>2
    <2> QED BY <1>1, <1>3, <2>2, <2>3 DEF K
  <1>13. StreamInv(s)'
    BY <1>1, <1>3, <1>6, <1>7, <1>8, <1>9, <1>11, <1>12 DEF StreamInv, t
  <1>14. OnlyStream(s)
    BY <1>1, <1>2 DEF OnlyStream, EventTypeOK
  <1> QED BY <1>10, <1>13, <1>14, StreamFrame

\* A received event is a new one, and the last so far.
LEMMA DeliverGrows ==
    ASSUME EventInv, NEW s \in Subscriber, NEW i \in EventId, Deliver(s, i),
           \A j \in Seen(s) : j < i
    PROVE  /\ received' = [received EXCEPT ![s] = received'[s]] /\ received'[s] \in Seq(EventId)
           /\ Increasing(received'[s]) /\ Seen(s)' = Seen(s) \cup {i}
           /\ conn' = [conn EXCEPT ![s] = conn'[s]] /\ conn'[s] \in {conn[s], "ended"}
  <1>1. /\ EventTypeOK /\ received[s] \in Seq(EventId) /\ Increasing(received[s])
        /\ Seen(s) \subseteq Nat /\ i \in Nat
    BY StreamTypes DEF EventInv, StreamType, StreamInv
  <1>2. /\ received' = [received EXCEPT ![s] = Append(received[s], i)]
        /\ conn' = [conn EXCEPT ![s] = IF i = last[Follows[s]] THEN "ended" ELSE conn[s]]
    BY DEF Deliver, AfterEvent
  <1>3. received'[s] = Append(received[s], i)
    BY <1>1, <1>2 DEF EventTypeOK
  <1>4. Increasing(received'[s])
    BY <1>1, <1>3, OrderedAppend DEF Increasing, Seen
  <1>5. Seen(s)' = Seen(s) \cup {i}
    BY <1>1, <1>3, ToSetAppend DEF Seen
  <1> QED BY <1>1, <1>2, <1>3, <1>4, <1>5 DEF EventTypeOK

\* The next event of the replay.
LEMMA FromReplayKeeps == ASSUME EventInv, NEW s \in Subscriber, FromReplay(s) PROVE EventInv'
  <1> DEFINE i == Head(replay[s])
             rest == Tail(replay[s])
  <1>1. EventTypeOK /\ StreamType(s) /\ StreamInv(s) /\ next \in Nat \ {0}
    BY StreamTypes DEF EventInv
  <1>2. /\ conn[s] \in {"live", "replay"} /\ replay[s] # <<>> /\ Deliver(s, i)
        /\ replay' = [replay EXCEPT ![s] = rest] /\ UNCHANGED <<store, turns, cursor, from, lagged>>
    BY DEF FromReplay
  <1>3. /\ replay[s] \in Seq(EventId) /\ rest \in Seq(EventId) /\ i \in EventId
    BY <1>1, <1>2 DEF StreamType
  <1>4. /\ Increasing(rest) /\ ToSet(replay[s]) = ToSet(rest) \cup {i}
        /\ \A j \in ToSet(rest) : i < j
    <2> DEFINE R == {p \in Nat \X Nat : p[1] < p[2]}
    <2>1. Ordered(replay[s], R)
      BY <1>1 DEF StreamInv, Increasing
    <2>2. \A x, y : <<x, y>> \in R => x < y
      OBVIOUS
    <2> HIDE DEF R
    <2>3. /\ Ordered(rest, R) /\ ToSet(replay[s]) = ToSet(rest) \cup {i}
          /\ \A j \in ToSet(rest) : <<i, j>> \in R
      BY <1>2, <1>3, <2>1, OrderedTail
    <2>4. Increasing(rest)
      BY <2>3 DEF R, Increasing
    <2> QED BY <2>2, <2>3, <2>4
  <1> HIDE DEF i, rest
  <1>5. \A j \in Seen(s) : j < i
    BY <1>1, <1>4 DEF StreamInv
  <1>6. /\ received' = [received EXCEPT ![s] = received'[s]] /\ received'[s] \in Seq(EventId)
        /\ Increasing(received'[s]) /\ Seen(s)' = Seen(s) \cup {i}
        /\ conn' = [conn EXCEPT ![s] = conn'[s]] /\ conn'[s] \in {conn[s], "ended"}
    BY <1>2, <1>3, <1>5, DeliverGrows
  <1>7. /\ replay'[s] = rest /\ from'[s] = from[s] /\ lagged'[s] = lagged[s]
        /\ cursor'[s] = cursor[s]
        /\ channel' = channel /\ events' = events /\ next' = next
    BY <1>1, <1>2 DEF EventTypeOK, store, turns
  <1>8. Coming(s)' = Coming(s) /\ IdsOf(s)' = IdsOf(s) /\ EventId' = EventId
    BY <1>7 DEF Coming, IdsOf, EventId
  <1>9. StreamType(s)'
    BY <1>1, <1>2, <1>3, <1>6, <1>7, <1>8 DEF StreamType
  <1>10. conn'[s] # "off"
    BY <1>2, <1>6
  <1>11. StreamInv(s)'
    BY <1>1, <1>2, <1>4, <1>6, <1>7, <1>8, <1>10 DEF StreamInv
  <1>12. OnlyStream(s)
    BY <1>1, <1>2, <1>6, <1>7 DEF OnlyStream, EventTypeOK
  <1> QED BY <1>9, <1>11, <1>12, StreamFrame

\* What lag skips is lost and nothing else is.
LEMMA LagKeeps == ASSUME EventInv, NEW s \in Subscriber, Lag(s) PROVE EventInv'
  <1> DEFINE ch == channel[Follows[s]]
             N == Len(ch)
             c == cursor[s]
             d == N - Channel
             lost == {ch[k] : k \in c + 1 .. d}
  <1>1. /\ EventTypeOK /\ StreamType(s) /\ StreamInv(s) /\ next \in Nat \ {0}
        /\ ch \in Seq(EventId) /\ N \in Nat /\ c \in Nat /\ Channel \in Nat
    BY StreamTypes, ReplayAssumption DEF EventInv, StreamType
  <1>2. /\ conn[s] = "live" /\ replay[s] = <<>> /\ N - c > Channel
        /\ cursor' = [cursor EXCEPT ![s] = d]
        /\ lagged' = [lagged EXCEPT ![s] = @ \cup {ch[k] : k \in c + 1 .. cursor'[s]}]
        /\ UNCHANGED <<store, turns, conn, replay, from, received>>
    BY DEF Lag, Behind
  <1>3. /\ cursor'[s] = d /\ lagged'[s] = lagged[s] \cup lost /\ conn'[s] = conn[s]
        /\ replay'[s] = replay[s]
        /\ from'[s] = from[s] /\ received'[s] = received[s]
        /\ channel' = channel /\ events' = events /\ next' = next
    BY <1>1, <1>2 DEF EventTypeOK, store, turns
  <1> HIDE DEF ch
  <1>4. d \in Nat /\ c < d /\ d <= N
    BY <1>1, <1>2
  <1>5. Coming(s) = {ch[k] : k \in c + 1 .. N} /\ Coming(s)' = {ch[k] : k \in d + 1 .. N}
    BY <1>3 DEF Coming, ch
  <1> HIDE DEF c, d, N
  <1>6. Coming(s) = lost \cup Coming(s)' /\ lost \subseteq EventId
    <2>1. \A k \in c + 1 .. N : k \in 1 .. N /\ (k \in c + 1 .. d \/ k \in d + 1 .. N)
      BY <1>1, <1>4
    <2>2. (c + 1 .. d) \subseteq (c + 1 .. N) /\ (d + 1 .. N) \subseteq (c + 1 .. N)
      BY <1>1, <1>4
    <2>3. \A k \in 1 .. N : ch[k] \in EventId
      BY <1>1 DEF N
    <2> QED BY <1>5, <2>1, <2>2, <2>3
  <1> HIDE DEF lost
  <1>7. Seen(s)' = Seen(s) /\ IdsOf(s)' = IdsOf(s) /\ EventId' = EventId
    BY <1>3 DEF Seen, IdsOf, EventId
  <1>8. StreamType(s)'
    BY <1>1, <1>3, <1>4, <1>6, <1>7 DEF StreamType
  <1>9. StreamInv(s)'
    BY <1>1, <1>2, <1>3, <1>4, <1>6, <1>7 DEF StreamInv, N, ch
  <1>10. OnlyStream(s)
    BY <1>1, <1>2, <1>3 DEF OnlyStream, EventTypeOK
  <1> QED BY <1>8, <1>9, <1>10, StreamFrame

\* The next event of the channel, which is never one that the replay had.
LEMMA FromChannelKeeps == ASSUME EventInv, NEW s \in Subscriber, FromChannel(s) PROVE EventInv'
  <1> DEFINE ch == channel[Follows[s]]
             N == Len(ch)
             c == cursor[s]
             i == ch[c + 1]
  <1>1. /\ EventTypeOK /\ StreamType(s) /\ StreamInv(s) /\ next \in Nat \ {0}
        /\ ch \in Seq(EventId) /\ Increasing(ch) /\ N \in Nat /\ c \in Nat /\ Channel \in Nat
        /\ Seen(s) \subseteq EventId /\ EventId \subseteq Nat
    BY StreamTypes, ReplayAssumption DEF EventInv, StreamType
  <1>2. /\ conn[s] = "live" /\ replay[s] = <<>> /\ N - c \in 1 .. Channel
        /\ IF i > from[s] THEN Deliver(s, i) ELSE UNCHANGED <<received, conn>>
        /\ cursor' = [cursor EXCEPT ![s] = c + 1]
        /\ UNCHANGED <<store, turns, replay, from, lagged>>
    BY DEF FromChannel, Behind
  <1>3. /\ cursor'[s] = c + 1 /\ lagged'[s] = lagged[s] /\ replay'[s] = replay[s]
        /\ from'[s] = from[s]
        /\ channel' = channel /\ events' = events /\ next' = next
    BY <1>1, <1>2 DEF EventTypeOK, store, turns
  <1> HIDE DEF ch
  <1>4. Coming(s) = {ch[k] : k \in c + 1 .. N} /\ Coming(s)' = {ch[k] : k \in (c + 1) + 1 .. N}
    BY <1>3 DEF Coming, ch
  <1>5. c < N /\ c + 1 \in 1 .. N /\ c + 1 \in c + 1 .. N
    BY <1>1, <1>2
  <1>6. i \in EventId /\ i \in Coming(s)
    BY <1>1, <1>4, <1>5
  <1> HIDE DEF c, N
  <1>7. Coming(s) = Coming(s)' \cup {i}
    <2>1. \A k \in c + 1 .. N : k = c + 1 \/ k \in (c + 1) + 1 .. N
      BY <1>1
    <2>2. ((c + 1) + 1 .. N) \subseteq (c + 1 .. N)
      BY <1>1
    <2> QED BY <1>4, <1>5, <2>1, <2>2
  <1>8. \A j \in Coming(s)' : i < j
    <2> SUFFICES ASSUME NEW k \in (c + 1) + 1 .. N PROVE i < ch[k]
      BY <1>4
    <2>1. k \in 1 .. N /\ c + 1 < k /\ DOMAIN ch = 1 .. N
      BY <1>1, <1>5 DEF N
    <2> QED BY <1>1, <1>5, <2>1 DEF Increasing, Ordered
  <1>9. \A j \in Seen(s) : j < i
    BY <1>1, <1>2, <1>6 DEF StreamInv
  <1>10. i > from[s]
    BY <1>1, <1>6, <1>9 DEF StreamInv, EventId
  <1> HIDE DEF i
  <1>11. Deliver(s, i)
    BY <1>2, <1>10
  <1>12. /\ received' = [received EXCEPT ![s] = received'[s]] /\ received'[s] \in Seq(EventId)
         /\ Increasing(received'[s]) /\ Seen(s)' = Seen(s) \cup {i}
         /\ conn' = [conn EXCEPT ![s] = conn'[s]] /\ conn'[s] \in {conn[s], "ended"}
    BY <1>6, <1>9, <1>11, DeliverGrows
  <1>13. IdsOf(s)' = IdsOf(s) /\ EventId' = EventId
    BY <1>3 DEF IdsOf, EventId
  <1>14. StreamType(s)'
    <2>1. conn'[s] \in {"live", "ended"}
      BY <1>2, <1>12
    <2>2. cursor'[s] \in Nat
      BY <1>1, <1>3
    <2> QED BY <1>1, <1>3, <1>12, <1>13, <2>1, <2>2 DEF StreamType
  <1>15. conn'[s] # "off" /\ ToSet(replay[s]) = {}
    BY <1>2, <1>12 DEF ToSet
  <1>16. cursor'[s] <= Len(channel'[Follows[s]])
    BY <1>1, <1>3, <1>5 DEF N, ch
  <1>17. \A j \in Seen(s)', k \in Coming(s)' : j < k
    BY <1>1, <1>2, <1>7, <1>8, <1>12 DEF StreamInv
  <1>18. StreamInv(s)'
    BY <1>1, <1>2, <1>3, <1>7, <1>12, <1>13, <1>15, <1>16, <1>17 DEF StreamInv
  <1>19. OnlyStream(s)
    BY <1>1, <1>2, <1>3, <1>12 DEF OnlyStream, EventTypeOK
  <1> QED BY <1>14, <1>18, <1>19, StreamFrame

\* The end of a stream.
LEMMA StreamEndsKeeps == ASSUME EventInv, NEW s \in Subscriber, StreamEnds(s) PROVE EventInv'
  <1>1. EventTypeOK /\ StreamType(s) /\ StreamInv(s)
    BY StreamTypes DEF EventInv
  <1>2. /\ conn[s] # "off" /\ conn' = [conn EXCEPT ![s] = "ended"]
        /\ UNCHANGED <<store, turns, replay, cursor, from, received, lagged>>
    BY DEF StreamEnds
  <1>3. conn'[s] = "ended" /\ channel' = channel /\ events' = events /\ next' = next
    BY <1>1, <1>2 DEF EventTypeOK, store, turns
  <1>4. Seen(s)' = Seen(s) /\ IdsOf(s)' = IdsOf(s) /\ Coming(s)' = Coming(s) /\ EventId' = EventId
    BY <1>2, <1>3 DEF Seen, IdsOf, Coming, EventId
  <1>5. StreamType(s)'
    BY <1>1, <1>2, <1>3, <1>4 DEF StreamType
  <1>6. StreamInv(s)'
    BY <1>1, <1>2, <1>3, <1>4 DEF StreamInv
  <1>7. OnlyStream(s)
    BY <1>1, <1>2 DEF OnlyStream, EventTypeOK
  <1> QED BY <1>5, <1>6, <1>7, StreamFrame

\* api.rs:696-723: what is not received yet is after Last-Event-ID, so a new stream gets it.
LEMMA DisconnectKeeps == ASSUME EventInv, NEW s \in Subscriber, Disconnect(s) PROVE EventInv'
  <1>1. /\ EventTypeOK /\ StreamType(s) /\ StreamInv(s) /\ next \in Nat \ {0}
        /\ Seen(s) \subseteq Nat
    BY StreamTypes DEF EventInv
  <1>2. /\ conn[s] # "off" /\ conn' = [conn EXCEPT ![s] = "off"]
        /\ replay' = [replay EXCEPT ![s] = <<>>]
        /\ cursor' = [cursor EXCEPT ![s] = 0] /\ from' = [from EXCEPT ![s] = 0]
        /\ UNCHANGED <<store, turns, received, lagged>>
    BY DEF Disconnect
  <1>3. /\ conn'[s] = "off" /\ replay'[s] = <<>> /\ cursor'[s] = 0 /\ from'[s] = 0
        /\ channel' = channel /\ events' = events /\ next' = next
    BY <1>1, <1>2 DEF EventTypeOK, store, turns
  <1>4. Seen(s)' = Seen(s) /\ IdsOf(s)' = IdsOf(s) /\ EventId' = EventId
    BY <1>2, <1>3 DEF Seen, IdsOf, EventId
  <1>5. StreamType(s)'
    BY <1>1, <1>2, <1>3, <1>4 DEF StreamType
  <1>6. \A j \in IdsOf(s) \ (Seen(s) \cup lagged[s]) : \A i \in Seen(s) : i < j
    BY <1>1, <1>2 DEF StreamInv
  <1>7. ToSet(<<>>) = {} /\ Increasing(<<>>)
    BY DEF ToSet, Increasing, Ordered
  <1>8. StreamInv(s)'
    BY <1>1, <1>2, <1>3, <1>4, <1>6, <1>7 DEF StreamInv
  <1>9. OnlyStream(s)
    BY <1>1, <1>2, <1>3 DEF OnlyStream, EventTypeOK
  <1> QED BY <1>5, <1>8, <1>9, StreamFrame

-------------------------------------------------------------------------------
(* The theorems *)

\* The invariant holds at first.
LEMMA InitEventInv == EventInit => EventInv
  <1> SUFFICES ASSUME EventInit PROVE EventInv
    OBVIOUS
  <1>1. ToSet(<<>>) = {} /\ Increasing(<<>>) /\ Ordered(<<>>, ById) /\ Len(<<>>) = 0
    BY DEF ToSet, Increasing, Ordered
  <1>2. MaxReplay \in Nat /\ MaxEvents \in Nat
    BY ReplayAssumption
  <1>3. \A t \in Turn : events[t] = <<>> /\ bytes[t] = 0 /\ channel[t] = <<>>
    BY DEF EventInit
  <1>4. EventTypeOK
    <2>1. \A S : <<>> \in Seq(S)
      OBVIOUS
    <2> QED BY <1>2, <2>1 DEF EventInit, EventTypeOK, EventId
  <1>5. Retained(events) = {} /\ Started = {}
    BY <1>1, <1>3 DEF Retained, Started, EventInit
  <1>6. ExactCounts(events, bytes, replayBytes)
    <2>1. events \in [Turn -> Seq(EventRecord)] /\ bytes \in [Turn -> Nat]
      BY DEF EventInit
    <2>2. Apart(events)
      BY <1>1, <1>3 DEF Apart
    <2>3. ASSUME NEW t \in Turn
          PROVE  bytes[t] = SizeOf(ToSet(events[t])) /\ Len(events[t]) <= MaxEvents
      <3>1. events[t] = <<>> /\ bytes[t] = 0
        BY <1>3
      <3>2. ToSet(events[t]) = {}
        BY <1>1, <3>1, Zenon
      <3>3. SizeOf(ToSet(events[t])) = 0
        BY <3>2, SizeEmpty, Zenon
      <3>4. Len(events[t]) <= MaxEvents
        BY <1>2, <3>1
      <3> QED BY <3>1, <3>3, <3>4, Zenon
    <2>4. replayBytes = SizeOf({}) /\ replayBytes <= MaxReplay
      BY <1>2, SizeEmpty DEF EventInit
    <2> QED BY <1>5, <2>1, <2>2, <2>3, <2>4, FS_EmptySet DEF ExactCounts
  <1>7. StoreInv
    BY <1>1, <1>3, <1>5, <1>6, FS_EmptySet DEF StoreInv
  <1>8. ASSUME NEW s \in Subscriber PROVE StreamInv(s)
    <2>1. Follows[s] \in Turn
      BY ReplayAssumption
    <2>2. conn[s] = "off" /\ replay[s] = <<>> /\ received[s] = <<>> /\ from[s] = 0
      BY DEF EventInit
    <2> QED BY <1>1, <1>3, <2>1, <2>2 DEF StreamInv, Seen, IdsOf
  <1> QED BY <1>4, <1>7, <1>8 DEF EventInv

\* Every step keeps the invariant.
LEMMA NextEventInv == EventInv /\ [EventNext]_eventVars => EventInv'
  <1> SUFFICES ASSUME EventInv, [EventNext]_eventVars PROVE EventInv'
    OBVIOUS
  <1>1. ASSUME OwnerStep PROVE EventInv'
    BY <1>1, CreateTurnKeeps, TurnEventKeeps, TerminalizeKeeps DEF OwnerStep
  <1>2. ASSUME NEW s \in Subscriber, Subscribe(s) \/ StreamStep(s) \/ Disconnect(s) PROVE EventInv'
    BY <1>2, SubscribeKeeps, FromReplayKeeps, LagKeeps, FromChannelKeeps, StreamEndsKeeps,
       DisconnectKeeps DEF StreamStep
  <1>3. ASSUME UNCHANGED eventVars PROVE EventInv'
    <2>1. UNCHANGED <<status, next, events, bytes, replayBytes, channel, last,
                      conn, replay, cursor, from, received, lagged>>
      BY <1>3 DEF eventVars, store, turns, streams
    <2>2. EventTypeOK' /\ StoreInv'
      BY <2>1 DEF EventInv, EventTypeOK, EventId, StoreInv, Started
    <2>3. ASSUME NEW s \in Subscriber PROVE StreamInv(s)'
      <3>1. StreamInv(s)
        BY DEF EventInv
      <3>2. Seen(s)' = Seen(s) /\ IdsOf(s)' = IdsOf(s) /\ Coming(s)' = Coming(s)
        BY <2>1 DEF Seen, IdsOf, Coming
      <3> QED BY <2>1, <3>1, <3>2 DEF StreamInv
    <2> QED BY <2>2, <2>3 DEF EventInv
  <1> QED BY <1>1, <1>2, <1>3 DEF EventNext

\* The invariant holds in every behaviour of the replay.
THEOREM EventInvAlways == EventSpec => []EventInv
  BY InitEventInv, NextEventInv, PTL DEF EventSpec

\* api.rs:1805-1868: the counters are the sizes of what is retained, and the limits hold.
THEOREM ReplayIsExactAlways == EventSpec => []ReplayIsExact
  <1>1. EventInv => ReplayIsExact
    BY DEF EventInv, StoreInv, ExactCounts, ReplayIsExact
  <1> QED BY <1>1, EventInvAlways, PTL

\* api.rs:696-723 and 1642-1651: a subscriber receives growing ids, over all its streams.
THEOREM EachOnceAlways == EventSpec => []EachOnce
  <1>1. EventInv => EachOnce
    <2> SUFFICES ASSUME EventInv, NEW s \in Subscriber, NEW k \in 1 .. Len(received[s]) - 1
                 PROVE  received[s][k] < received[s][k + 1]
      BY DEF EachOnce
    <2>1. received[s] \in Seq(EventId) /\ Increasing(received[s])
      BY StreamTypes DEF StreamType, StreamInv
    <2>2. k \in DOMAIN received[s] /\ k + 1 \in DOMAIN received[s] /\ k < k + 1
      BY <2>1
    <2>3. <<received[s][k], received[s][k + 1]>> \in {p \in Nat \X Nat : p[1] < p[2]}
      BY <2>1, <2>2 DEF Increasing, Ordered
    <2> QED BY <2>3
  <1> QED BY <1>1, EventInvAlways, PTL

\* api.rs:696-723: what a subscriber has missed of the retained events was lost by lag.
THEOREM NothingIsSkippedAlways == EventSpec => []NothingIsSkipped
  <1>1. EventInv => NothingIsSkipped
    <2> SUFFICES ASSUME EventInv, NEW s \in Subscriber, NEW i \in ToSet(Ids(Follows[s])),
                        i < LastOf(received[s]), i \notin ToSet(received[s]) \cup lagged[s]
                 PROVE  FALSE
      BY DEF NothingIsSkipped
    <2>1. EventTypeOK /\ StreamInv(s) /\ EventId \subseteq Nat /\ Seen(s) \subseteq EventId
      BY StreamTypes DEF EventInv
    <2>2. i \in IdsOf(s) /\ i \in Nat
      BY <2>1, IdsOfEvents
    <2>3. LastOf(received[s]) = 0 \/ LastOf(received[s]) \in Seen(s)
      BY <2>1, LastOfSeen DEF StreamInv
    <2>4. LastOf(received[s]) \in Seen(s) /\ LastOf(received[s]) \in Nat
      <3>1. LastOf(received[s]) # 0
        BY <2>2
      <3> QED BY <2>1, <2>3, <3>1
    <2>5. i \notin Seen(s) \cup lagged[s]
      BY DEF Seen
    <2>6. LastOf(received[s]) < i
      <3>1. CASE conn[s] # "off"
        BY <2>1, <2>2, <2>4, <2>5, <3>1 DEF StreamInv
      <3>2. CASE conn[s] = "off"
        BY <2>1, <2>2, <2>4, <2>5, <3>2 DEF StreamInv
      <3> QED BY <3>1, <3>2
    <2> QED BY <2>2, <2>4, <2>6
  <1> QED BY <1>1, EventInvAlways, PTL
===============================================================================
