--------------------------- MODULE ApprovalDescriptor ---------------------------
(***************************************************************************)
(* What the owner is shown of an approval and what an answer grants         *)
(* (src/src/client.rs): the fields of a request, which the app-server may   *)
(* fill as it likes, the descriptor that is made of them, the decision of   *)
(* the policy, and the response. A text is one that is shown as it is, one  *)
(* that is redacted or collapsed, or one that is too long.                  *)
(***************************************************************************)
EXTENDS Naturals, Sequences, Functions

CONSTANTS
    Exact, Redacted, Long,   \* the texts
    Wrong,                   \* a value of another type or shape
    Absent,                  \* no such field, or null
    Hidden,                  \* what is shown in the place of a text
    Bytes,                   \* the bytes of a text
    ListCap,                 \* MAX_APPROVAL_LIST_ITEMS, MAX_PERMISSION_ENTRIES
    PatchCap,                \* MAX_APPROVAL_PATCH_BYTES
    Requests                 \* those the app-server makes

Short == Exact \cup Redacted
Text == Short \cup Long
Field == Text \cup {Wrong, Absent}

ASSUME DescriptorAssumption ==
    /\ Exact \cap (Redacted \cup Long) = {} /\ Redacted \cap Long = {}
    /\ {Wrong, Absent, Hidden} \cap Text = {} /\ Wrong # Absent /\ Hidden \notin {Wrong, Absent}
    /\ Bytes \in [Text -> Nat] /\ ListCap \in Nat /\ PatchCap \in Nat

\* The JSON that a request may hold.
Network == [host : Text, protocol : {"http", "https", "socks5Tcp", "socks5Udp"}]
Change == [type : STRING, text : Field, move : Field, extension : BOOLEAN]
Entry == [access : STRING, kind : STRING, path : Field, subpath : Field, extension : BOOLEAN]
List(S) == {Absent, Wrong} \cup Seq(S)
Profile ==
    [malformed : BOOLEAN, entries : List(Entry), read : List(Field), write : List(Field),
     network : {Absent, Wrong, TRUE, FALSE}, depth : Nat \cup {Absent, Wrong}]

Request ==
    [method : {"commandExecution"}, cwd : Field, reason : Field, extension : BOOLEAN, command : Field,
     environment : Field, network : {Absent, Wrong} \cup Network, amendment : BOOLEAN]
    \cup [method : {"execCommand"}, cwd : Field, reason : Field, extension : BOOLEAN,
          command : {Wrong} \cup Seq(Field)]
    \cup [method : {"applyPatch"}, cwd : Field, reason : Field, extension : BOOLEAN, root : Field,
          changes : {Wrong} \cup Seq([path : Text, change : {Wrong} \cup Change])]
    \cup [method : {"fileChange"}, cwd : Field, reason : Field, extension : BOOLEAN, root : Field]
    \cup [method : {"permissions"}, cwd : Field, reason : Field, extension : BOOLEAN,
          environment : Field, permissions : {Absent, Wrong} \cup Profile]

ASSUME RequestsAssumption == Requests \subseteq Request

VARIABLES
    request,      \* the request that is being handled
    descriptor,   \* what the owner is shown, or Absent
    allowed,      \* allow_permitted
    decision,     \* what the policy said, or Absent
    response      \* what was written, or Absent

vars == <<request, descriptor, allowed, decision, response>>

-------------------------------------------------------------------------------
(* Texts *)

Sanitised(f) == IF f \in Exact THEN f ELSE Hidden

\* optional_approval_text, optional_patch_path
Shown(f) == IF f \in Text THEN Sanitised(f) ELSE Absent
Reviewable(f) == f \in Exact \cup {Absent}

-------------------------------------------------------------------------------
(* Commands *)

NetworkReviewable(n) == n = Absent \/ (n # Wrong /\ n.host \in Exact)

ShownNetwork(n) ==
    IF n \in {Absent, Wrong} THEN Absent
    ELSE [host |-> Sanitised(n.host), protocol |-> n.protocol]

\* Every field of the request is one the matrix of the pinned schema classifies, and the matrix
\* has no grant that the request does not carry. A patch has no cwd in the schema.
Classified(r) ==
    /\ ~r.extension /\ r.method # "fileChange"
    /\ r.method = "applyPatch" => r.cwd = Absent

NoPermissions == [files |-> <<>>, network |-> Absent, depth |-> Absent]

Described(r) ==
    [cwd |-> Shown(r.cwd), reason |-> Shown(r.reason),
     command |-> Absent, arguments |-> <<>>, environment |-> Absent, network |-> Absent,
     changes |-> <<>>, permissions |-> NoPermissions, profile |-> Absent,
     reviewable |-> Reviewable(r.cwd) /\ Reviewable(r.reason) /\ Classified(r)]

DescribeCommandExecution(r) ==
    [Described(r) EXCEPT
        !.command = Shown(r.command),
        !.environment = Shown(r.environment),
        !.network = ShownNetwork(r.network),
        !.reviewable = /\ @
                       /\ r.command \in Exact
                       /\ Reviewable(r.environment) /\ NetworkReviewable(r.network)
                       /\ r.cwd \in Text
                       /\ ~r.amendment]

\* All the arguments are shown, however many.
DescribeExecCommand(r) ==
    IF r.command = Wrong \/ \E i \in DOMAIN r.command : r.command[i] \notin Text
    THEN [Described(r) EXCEPT !.reviewable = FALSE]
    ELSE [Described(r) EXCEPT
            !.arguments = [i \in DOMAIN r.command |-> Sanitised(r.command[i])],
            !.reviewable = /\ @
                           /\ Len(r.command) <= ListCap
                           /\ \A i \in DOMAIN r.command : r.command[i] \in Exact
                           /\ r.cwd \in Text]

-------------------------------------------------------------------------------
(* Patches *)

Operation(c) == IF c # Wrong /\ c.type \in {"add", "update", "delete"} THEN c.type ELSE "unknown"

\* The bytes of the text of a change, if it has one that can be shown.
TextBytes(c) == IF Operation(c) # "unknown" /\ c.text \in Text THEN Bytes[c.text] ELSE 0

\* What does not fit uses nothing of the budget.
Spent(used, bytes) == IF used + bytes <= PatchCap THEN used + bytes ELSE used

\* The bytes that the first changes have used of the budget.
Used(changes, i) ==
    LET used[j \in 0 .. Len(changes)] ==
            IF j = 0 THEN 0 ELSE Spent(used[j - 1], TextBytes(changes[j].change))
    IN  used[i]

Fits(changes, i) ==
    LET c == changes[i].change IN
    c.text \in Text /\ Used(changes, i - 1) + Bytes[c.text] <= PatchCap

ShownChange(changes, i) ==
    LET c == changes[i].change IN
    [path |-> Sanitised(changes[i].path),
     operation |-> Operation(c),
     text |-> IF Operation(c) # "unknown" /\ Fits(changes, i) THEN c.text ELSE Absent,
     move |-> IF Operation(c) = "update" THEN Shown(c.move) ELSE Absent]

ChangeReviewable(changes, i) ==
    LET c == changes[i].change IN
    /\ Operation(c) # "unknown" /\ changes[i].path \in Exact
    /\ Fits(changes, i) /\ ~c.extension
    /\ IF c.type = "update" THEN Reviewable(c.move) ELSE c.move = Absent

Root(r) ==
    IF r.root \in Text
    THEN <<[path |-> Sanitised(r.root), operation |-> "grant_root", text |-> Absent, move |-> Absent]>>
    ELSE <<>>

\* Mutant: what is beyond the limit is left out without a word.
DescribeThePrefix(r) ==
    IF r.changes = Wrong
    THEN [Described(r) EXCEPT !.changes = Root(r), !.reviewable = FALSE]
    ELSE LET n == IF Len(r.changes) <= ListCap THEN Len(r.changes) ELSE ListCap IN
         [Described(r) EXCEPT
            !.changes = Root(r) \o [i \in 1 .. n |-> ShownChange(r.changes, i)],
            !.reviewable = @ /\ Reviewable(r.root) /\ \A i \in 1 .. n : ChangeReviewable(r.changes, i)]

\* At most ListCap changes are shown, and then the rest is missing.
DescribePatch(r) ==
    IF r.changes = Wrong
    THEN [Described(r) EXCEPT !.changes = Root(r), !.reviewable = FALSE]
    ELSE LET n == IF Len(r.changes) <= ListCap THEN Len(r.changes) ELSE ListCap IN
         [Described(r) EXCEPT
            !.changes = Root(r) \o [i \in 1 .. n |-> ShownChange(r.changes, i)],
            !.reviewable = /\ @
                           /\ Reviewable(r.root) /\ Len(r.changes) <= ListCap
                           /\ \A i \in 1 .. n : ChangeReviewable(r.changes, i)]

\* The changes of the item that is approved are not in the request.
DescribeFileChange(r) ==
    [Described(r) EXCEPT !.changes = Root(r), !.reviewable = FALSE]

-------------------------------------------------------------------------------
(* Permissions *)

ValidEntry(e) ==
    /\ ~e.extension /\ e.access \in {"read", "write", "deny"}
    /\ CASE e.kind \in {"path", "glob_pattern"} -> e.path \in Short /\ e.subpath = Absent
         [] e.kind = "root" -> e.path = Absent /\ e.subpath = Absent
         [] e.kind = "project_roots" -> e.path = Absent /\ e.subpath \in Short \cup {Absent}
         [] e.kind = "unknown" -> e.path \in Short /\ e.subpath \in Short \cup {Absent}
         [] OTHER -> FALSE

Listed(l) == IF l \in {Absent, Wrong} THEN <<>> ELSE l

\* Mutant: each list has the limit to itself.
EachCounted(p) ==
    /\ Len(Listed(p.entries)) <= ListCap
    /\ Len(Listed(p.read)) <= ListCap /\ Len(Listed(p.write)) <= ListCap

\* The lists have one limit, together.
Counted(p) ==
    Len(Listed(p.entries)) + Len(Listed(p.read)) + Len(Listed(p.write)) <= ListCap

\* validated_requested_permissions. A malformed profile has an unknown key or too many bytes.
ValidProfile(p) ==
    /\ p \notin {Absent, Wrong} /\ ~p.malformed
    /\ Wrong \notin {p.entries, p.read, p.write, p.network, p.depth}
    /\ \A i \in DOMAIN Listed(p.entries) : ValidEntry(p.entries[i])
    /\ \A i \in DOMAIN Listed(p.read) : p.read[i] \in Short
    /\ \A i \in DOMAIN Listed(p.write) : p.write[i] \in Short
    /\ Counted(p)

ShownEntry(e) == [access |-> e.access, kind |-> e.kind, path |-> Shown(e.path), subpath |-> Shown(e.subpath)]

PathEntry(access, path) == [access |-> access, kind |-> "path", path |-> path, subpath |-> Absent]

\* describe_permissions
ShownProfile(p) ==
    [files |-> [i \in DOMAIN Listed(p.entries) |-> ShownEntry(p.entries[i])]
               \o [i \in DOMAIN Listed(p.read) |-> PathEntry("read", Sanitised(p.read[i]))]
               \o [i \in DOMAIN Listed(p.write) |-> PathEntry("write", Sanitised(p.write[i]))],
     network |-> p.network, depth |-> p.depth]

ProfileReviewable(p) ==
    /\ \A i \in DOMAIN Listed(p.entries) :
        Reviewable(p.entries[i].path) /\ Reviewable(p.entries[i].subpath)
    /\ \A i \in DOMAIN Listed(p.read) : p.read[i] \in Exact
    /\ \A i \in DOMAIN Listed(p.write) : p.write[i] \in Exact

DescribePermissions(r) ==
    LET d == [Described(r) EXCEPT !.environment = Shown(r.environment)]
        reviewable == /\ d.reviewable /\ Reviewable(r.environment) /\ r.cwd \in Text
                      /\ ValidProfile(r.permissions) /\ ProfileReviewable(r.permissions)
    IN  [d EXCEPT !.permissions = IF ValidProfile(r.permissions) THEN ShownProfile(r.permissions) ELSE NoPermissions,
                  !.profile = IF reviewable THEN r.permissions ELSE Absent,
                  !.reviewable = reviewable]

-------------------------------------------------------------------------------
(* The handler *)

Describe(r) ==
    CASE r.method = "commandExecution" -> DescribeCommandExecution(r)
      [] r.method = "execCommand" -> DescribeExecCommand(r)
      [] r.method = "applyPatch" -> DescribePatch(r)
      [] r.method = "fileChange" -> DescribeFileChange(r)
      [] r.method = "permissions" -> DescribePermissions(r)

EmptyProfile ==
    [malformed |-> FALSE, entries |-> <<>>, read |-> Absent, write |-> Absent,
     network |-> FALSE, depth |-> Absent]

\* approval_response: a profile for permissions, a decision for the rest (approved and abort are
\* the older names of accept and cancel).
Response(r, d) ==
    IF r.method = "permissions"
    THEN [profile |-> IF d = "allow" /\ ValidProfile(r.permissions) THEN r.permissions ELSE EmptyProfile,
          decision |-> Absent]
    ELSE [profile |-> Absent,
          decision |-> CASE d = "allow" -> "accept"
                         [] d = "timeout" /\ r.method \in {"execCommand", "applyPatch"} -> "timed_out"
                         [] OTHER -> "cancel"]

Receive(r) == request = r /\ descriptor = Absent /\ allowed = FALSE /\ decision = Absent /\ response = Absent

Init == \E r \in Requests : Receive(r)

Show ==
    /\ descriptor = Absent
    /\ descriptor' = Describe(request) /\ allowed' = Describe(request).reviewable
    /\ UNCHANGED <<request, decision, response>>

\* The fixed policies, the owner's answer, whatever it is, or none in time.
Decide ==
    /\ descriptor # Absent /\ decision = Absent
    /\ decision' \in {"allow", "deny", "timeout"}
    /\ UNCHANGED <<request, descriptor, allowed, response>>

Effective == IF decision = "allow" /\ ~allowed THEN "deny" ELSE decision

Respond ==
    /\ decision # Absent /\ response = Absent
    /\ response' = Response(request, Effective)
    /\ UNCHANGED <<request, descriptor, allowed, decision>>

Next == Show \/ Decide \/ Respond

Spec == Init /\ [][Next]_vars

-------------------------------------------------------------------------------
(* What an answer makes the app-server do, as the pinned schema has it *)

Given(name, f) == IF f = Absent THEN {} ELSE {<<name, f>>}
Unknown(r) == IF r.extension THEN {<<"extension">>} ELSE {}

OfProfile(p) ==
    {<<"file", p.entries[i].access, p.entries[i].kind, p.entries[i].path, p.entries[i].subpath>>
        : i \in DOMAIN Listed(p.entries)}
    \cup {<<"file", "read", "path", p.read[i], Absent>> : i \in DOMAIN Listed(p.read)}
    \cup {<<"file", "write", "path", p.write[i], Absent>> : i \in DOMAIN Listed(p.write)}
    \cup Given("network", p.network) \cup Given("depth", p.depth)

Effect(r) ==
    Given("cwd", r.cwd) \cup Unknown(r) \cup
    CASE r.method = "commandExecution" ->
            Given("command", r.command) \cup Given("environment", r.environment)
            \cup Given("network", r.network) \cup (IF r.amendment THEN {<<"amendment">>} ELSE {})
      [] r.method = "execCommand" ->
            IF r.command = Wrong THEN {<<"arguments">>}
            ELSE {<<"argument", i, r.command[i]>> : i \in DOMAIN r.command}
      [] r.method = "applyPatch" ->
            Given("root", r.root) \cup
            (IF r.changes = Wrong THEN {<<"changes">>}
             ELSE {<<"change", r.changes[i].path, r.changes[i].change>> : i \in DOMAIN r.changes})
      [] r.method = "fileChange" -> Given("root", r.root) \cup {<<"changes">>}
      [] r.method = "permissions" -> Given("environment", r.environment)

Granted(r, answer) ==
    IF r.method = "permissions"
    THEN IF answer.profile = EmptyProfile THEN {} ELSE Effect(r) \cup OfProfile(answer.profile)
    ELSE IF answer.decision = "accept" THEN Effect(r) ELSE {}

\* The same, as it is read from the descriptor.
OfChange(c) ==
    IF c.operation = "grant_root" THEN <<"root", c.path>>
    ELSE <<"change", c.path, [type |-> c.operation, text |-> c.text, move |-> c.move, extension |-> FALSE]>>

OfPermissions(p) ==
    {<<"file", p.files[i].access, p.files[i].kind, p.files[i].path, p.files[i].subpath>>
        : i \in DOMAIN p.files}
    \cup Given("network", p.network) \cup Given("depth", p.depth)

Displayed(d) ==
    Given("cwd", d.cwd) \cup Given("command", d.command)
    \cup Given("environment", d.environment) \cup Given("network", d.network)
    \cup {<<"argument", i, d.arguments[i]>> : i \in DOMAIN d.arguments}
    \cup {OfChange(d.changes[i]) : i \in DOMAIN d.changes}
    \cup OfPermissions(d.permissions)

-------------------------------------------------------------------------------
(* Properties *)

\* An answer that grants anything was an Allow, and what it grants is what the owner was shown
\* (client.rs:478-688, 2043-2088): every field, argument, change and permission, no other, and
\* none of them redacted, cut or left out.
InformedGrant ==
    response # Absent /\ Granted(request, response) # {} =>
        /\ decision = "allow" /\ allowed
        /\ Granted(request, response) = Displayed(descriptor)

ShownBytes(d) ==
    SumFunction([i \in DOMAIN d.changes |->
                    IF d.changes[i].text = Absent THEN 0 ELSE Bytes[d.changes[i].text]])

\* But for the arguments of a command that cannot be allowed.
Bounded(d) ==
    /\ Len(d.changes) <= ListCap + 1 /\ ShownBytes(d) <= PatchCap
    /\ Len(d.permissions.files) <= ListCap
    /\ d.reviewable => Len(d.arguments) <= ListCap

\* A command or a patch that can be shown as it is, within the limits.
Ordinary(r) ==
    /\ ~r.extension /\ r.reason \in Exact \cup {Absent}
    /\ r.cwd \in (IF r.method = "applyPatch" THEN {Absent} ELSE Exact)
    /\ CASE r.method = "commandExecution" ->
               /\ r.command \in Exact /\ r.environment \in Exact \cup {Absent} /\ ~r.amendment
               /\ r.network # Wrong /\ (r.network = Absent \/ r.network.host \in Exact)
         [] r.method = "execCommand" ->
               r.command # Wrong /\ r.command \in UNION {[1 .. n -> Exact] : n \in 0 .. ListCap}
         [] r.method = "applyPatch" ->
               /\ r.root \in Exact \cup {Absent} /\ r.changes # Wrong
               /\ Len(r.changes) <= ListCap
               /\ \A i \in DOMAIN r.changes :
                    LET c == r.changes[i].change IN
                    /\ r.changes[i].path \in Exact /\ c # Wrong
                    /\ ~c.extension /\ c.text \in Text /\ c.type \in {"add", "update", "delete"}
                    /\ c.move \in (IF c.type = "update" THEN Exact \cup {Absent} ELSE {Absent})
               /\ SumFunction([i \in DOMAIN r.changes |-> Bytes[r.changes[i].change.text]]) <= PatchCap
         [] OTHER -> FALSE

\* The limits of client.rs:1535-1547 are kept whatever the app-server sends, one by one and in
\* sum, and refuse no command or patch that is within them.
LimitsAreExact ==
    descriptor # Absent => Bounded(descriptor) /\ (Ordinary(request) => allowed)
===============================================================================
