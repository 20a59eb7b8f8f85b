----------------------------- MODULE DiffLegacy -----------------------------
(***************************************************************************)
(* tools/diff_legacy.py, the migration gate: every EtherCAT profile of the *)
(* repository must equal the frozen legacy profile with the approved       *)
(* overlays applied.  The gate does not compare YAML trees: it flattens    *)
(* them to maps from paths to scalars and applies the overlays there.      *)
(*                                                                         *)
(* The code joins the keys and positions that lead to a scalar into one    *)
(* string, such as sdo[0].index.  A path is that string read as a sequence *)
(* of names and positions, and so is the text of a mapping key, for a key  *)
(* may itself be spelled sdo[0].index: paths of different trees then are   *)
(* the same.  The built-in documents are cut down to the entries that tell *)
(* the overlays apart.                                                     *)
(*                                                                         *)
(* An operator that stands just before another one and is used nowhere is  *)
(* a mutated form of it: a bug the properties are shown to catch.          *)
(***************************************************************************)
EXTENDS Integers, Sequences, SequencesExt

CONSTANTS
  AxisProfiles,  \* AXIS_PROFILES in order: [axis, legacy, target, ti5]
  Roots,         \* the pairs of checkouts the gate may be given
  LongerNames,   \* names that begin with sdo, rpdo or tpdo and are none of them
  MaxDepth       \* how many steps down a YAML tree goes (bound)

ASSUME ProfilesAssumption ==
  /\ AxisProfiles \in Seq([axis : STRING, legacy : STRING, target : STRING, ti5 : BOOLEAN])
  /\ \A r \in Roots : {r.legacyFound, r.targetFound} \subseteq BOOLEAN
  /\ Roots # {} /\ MaxDepth \in Nat

-----------------------------------------------------------------------------
(* YAML nodes, as yaml.compose() returns them.                             *)

Str(s)   == [node |-> "scalar", kind |-> "string", text |-> s]
Float(s) == [node |-> "scalar", kind |-> "float", text |-> s]
Bool(s)  == [node |-> "scalar", kind |-> "bool", text |-> s]
Null(s)  == [node |-> "scalar", kind |-> "null", text |-> s]
Integer(neg, base, digits) ==
  [node |-> "scalar", kind |-> "int", negative |-> neg, base |-> base, digits |-> digits]
Dec(digits) == Integer(FALSE, 10, digits)
Hex(digits) == Integer(FALSE, 16, digits)
Map(items)  == [node |-> "map", items |-> items]
List(items) == [node |-> "list", items |-> items]

Key(k) == [key |-> k]
At(i)  == [at |-> i]
\* The text of a mapping key: a name, or a text that reads like a path.
Named(k) == <<Key(k)>>
Joined(path, value) == [key |-> path, value |-> value]
Item(k, value) == Joined(Named(k), value)

\* What reading and composing a file gives.
Tree(root) == [read |-> "tree", root |-> root]
Unread(how) == [read |-> how]

-----------------------------------------------------------------------------
(* Scalars.                                                                *)

\* 0x, 0o and 0b give the base; any other spelling is decimal, leading zeros included.
parse_integer(s) ==
  (IF s.negative THEN -1 ELSE 1)
    * FoldLeft(LAMBDA acc, digit : acc * s.base + digit, 0, s.digits)

TrueSpelling == {"true", "True", "TRUE", "yes", "on"}

\* Kinds must agree; floats are compared as they are spelled.
equivalent(e, a) ==
  /\ e.kind = a.kind
  /\ CASE e.kind = "int"  -> parse_integer(e) = parse_integer(a)
       [] e.kind = "bool" -> (e.text \in TrueSpelling) <=> (a.text \in TrueSpelling)
       [] e.kind = "null" -> TRUE
       [] OTHER -> e.text = a.text

-----------------------------------------------------------------------------
(* Semantic maps.                                                          *)

EmptyMap == [p \in {} |-> {}]

\* m.update(u)
Updated(m, u) == [p \in DOMAIN m \cup DOMAIN u |-> IF p \in DOMAIN u THEN u[p] ELSE m[p]]

StepsTo(n, i) == IF n.node = "map" THEN n.items[i].key ELSE <<At(i - 1)>>
Child(n, i) == IF n.node = "map" THEN n.items[i].value ELSE n.items[i]

\* A node and what is under it: the nodes flatten_node() visits.
Subtrees(node) ==
  LET parts(n) == IF n.node = "scalar" THEN {} ELSE {Child(n, i) : i \in 1..Len(n.items)}
      level[d \in 0..MaxDepth] ==
        IF d = 0 THEN {node} ELSE UNION {parts(n) : n \in level[d - 1]}
  IN  UNION {level[d] : d \in 0..MaxDepth}

\* A scalar is one entry, a collection the union of its children's entries, each behind the
\* prefix that leads to the child: an empty collection leaves no trace, and of two entries
\* under the same path the later one stays.
flatten_node(node) ==
  LET under(prefix, m) ==
        [p \in {prefix \o q : q \in DOMAIN m} |-> m[SubSeq(p, Len(prefix) + 1, Len(p))]]
      flat[n \in Subtrees(node)] ==
        IF n.node = "scalar"
          THEN [p \in {<<>>} |-> n]
          ELSE FoldLeft(Updated, EmptyMap,
                        [i \in 1..Len(n.items) |-> under(StepsTo(n, i), flat[Child(n, i)])])
  IN  flat[node]

\* What makes compose_yaml() and load_yaml() raise GateError, and what escapes it.
Refused(d)  == d.read \in {"missing", "invalid", "empty"}
                 \/ (d.read = "tree" /\ d.root.node = "scalar")
Escapes(d)  == d.read = "undecodable"
Semantic(d) == flatten_node(d.root)

compare_maps(expected, actual) ==
  {p \in DOMAIN expected \cup DOMAIN actual :
     \/ p \notin DOMAIN expected
     \/ p \notin DOMAIN actual
     \/ ~equivalent(expected[p], actual[p])}

-----------------------------------------------------------------------------
(* The approved overlays.                                                  *)

IsSdo(p) == Len(p) >= 2 /\ p[1] = Key("sdo") /\ "at" \in DOMAIN p[2]

SyncTolerance(type) ==
  List(<<Map(<<Item("index", Hex(<<1, 0, 15, 1>>)), Item("sub_index", Dec(<<2>>)),
               Item("type", Str(type)), Item("value", Dec(<<2, 5, 0>>))>>)>>)

Moved(p, n) == IF IsSdo(p) THEN [p EXCEPT ![2] = At(@.at + n)] ELSE p
prepend_without_shift(profile, type) ==
  Updated(profile, flatten_node(Map(<<Item("sdo", SyncTolerance(type))>>)))
\* Every start-up SDO moves one place down the list, the new one takes the first.
prepend_sync_tolerance(profile, type) ==
  Updated([q \in {Moved(p, 1) : p \in DOMAIN profile} |-> profile[Moved(q, -1)]],
          flatten_node(Map(<<Item("sdo", SyncTolerance(type))>>)))

TI5_CSP_OVERLAY ==
  Map(<<Item("sdo", List(<<Map(<<Item("index", Hex(<<6, 0, 6, 0>>)), Item("value", Dec(<<8>>))>>),
                           Map(<<Item("index", Hex(<<6, 0, 12, 2>>)),
                                 Item("value", Integer(TRUE, 10, <<3>>))>>)>>)),
        Item("rpdo", List(<<Map(<<Item("index", Hex(<<1, 6, 0, 1>>)),
               Item("channels", List(<<Map(<<Item("index", Hex(<<6, 0, 7, 10>>)),
                                             Item("factor", Float("41721.513402")),
                                             Item("default", Float(".nan"))>>)>>))>>)>>)),
        Item("tpdo", List(<<Map(<<Item("index", Hex(<<1, 10, 0, 1>>))>>)>>))>>)

XMC_UPDOWN_SW511_PROFILE ==
  Map(<<Item("auto_state_transitions", Bool("false")), Item("sdo", SyncTolerance("uint16"))>>)

XMC_UPDOWN_LIMITS ==
  Map(<<Item("joints",
        Map(<<Item("updown", Map(<<Item("upper_position_m", Float("0.8")),
                                   Item("direction", Dec(<<1>>))>>))>>))>>)

\* key.startswith(): the sections, and whatever else begins with one of their names.
Sections == {"sdo", "rpdo", "tpdo"}
InSection(p) == p[1] \in {Key(k) : k \in Sections \cup LongerNames}

apply_frozen_overlay(legacy, ti5) ==
  LET manual == Updated(legacy, [p \in {<<Key("auto_state_transitions")>>} |-> Bool("false")])
      kept   == {p \in DOMAIN manual : ~InSection(p)}
      csp    == Updated([p \in kept |-> manual[p]], flatten_node(TI5_CSP_OVERLAY))
  IN  IF ti5 THEN prepend_sync_tolerance(csp, "uint32")
             ELSE prepend_sync_tolerance(manual, "uint16")

-----------------------------------------------------------------------------
VARIABLES
  roots,        \* what the two checkouts hold
  position,     \* how many comparisons compare_configuration() has made
  differences,  \* the differences so far: <<axis, path>>
  exit          \* "running", or the exit status

diffVars == <<roots, position, differences, exit>>

\* The comparisons, in order: the axes, then updown, then the limits.
Comparisons ==
  AxisProfiles \o <<[axis |-> "updown", target |-> "xmc_updown_sw511.yaml"],
                    [axis |-> "joint_limits", legacy |-> "joint_limits.yaml",
                     target |-> "joint_limits.yaml"]>>

HasLegacy(c) == "legacy" \in DOMAIN c
FilesOf(r, c) ==
  IF HasLegacy(c) THEN <<r.legacy[c.legacy], r.target[c.target]>> ELSE <<r.target[c.target]>>
Expected(r, c) ==
  CASE c.axis = "updown"       -> flatten_node(XMC_UPDOWN_SW511_PROFILE)
    [] c.axis = "joint_limits" -> Updated(Semantic(r.legacy[c.legacy]),
                                          flatten_node(XMC_UPDOWN_LIMITS))
    [] OTHER                   -> apply_frozen_overlay(Semantic(r.legacy[c.legacy]), c.ti5)

\* Whether a comparison can be made, and what it finds.
Readable(r, c) ==
  \A i \in 1..Len(FilesOf(r, c)) : ~Refused(FilesOf(r, c)[i]) /\ ~Escapes(FilesOf(r, c)[i])
Differing(r, c) == compare_maps(Expected(r, c), Semantic(r.target[c.target]))

DiffTypeOK ==
  /\ {roots.legacyFound, roots.targetFound} \subseteq BOOLEAN
  /\ position \in 0..Len(Comparisons)
  /\ \A d \in differences : \E i \in 1..Len(Comparisons) : d[1] = Comparisons[i].axis
  /\ exit \in {"running", "0", "1", "2"}

DiffInit(r) == roots = r /\ position = 0 /\ differences = {} /\ exit = "running"

\* resolve_legacy_config() and resolve_target_paths().
Resolved(r) == r.legacyFound /\ r.targetFound
\* Both checkouts are found, and no comparison, of all of them, fails or finds a difference.
NothingDiffers(r) ==
  /\ Resolved(r)
  /\ \A i \in 1..Len(Comparisons) :
       Readable(r, Comparisons[i]) /\ Differing(r, Comparisons[i]) = {}

ResolveRoots ==
  /\ exit = "running" /\ ~Resolved(roots)
  /\ exit' = "2"
  /\ UNCHANGED <<roots, position, differences>>

\* One comparison: the files are read one after the other; a GateError ends the gate
\* with 2, any other exception with 1, whatever was found before.
Compare ==
  /\ exit = "running" /\ Resolved(roots) /\ position < Len(Comparisons)
  /\ LET c     == Comparisons[position + 1]
         files == FilesOf(roots, c)
         bad   == {i \in 1..Len(files) : Refused(files[i]) \/ Escapes(files[i])}
     IN  IF ~Readable(roots, c)
           THEN /\ exit' = IF Refused(files[Min(bad)]) THEN "2" ELSE "1"
                /\ UNCHANGED <<position, differences>>
           ELSE /\ differences' = differences \cup
                     {<<c.axis, p>> : p \in Differing(roots, c)}
                /\ position' = position + 1
                /\ UNCHANGED exit
  /\ UNCHANGED roots

FinishCount ==
  /\ exit = "running" /\ Resolved(roots) /\ position = Len(Comparisons)
  /\ exit' = IF differences = {} THEN "0" ELSE "count"
  /\ UNCHANGED <<roots, position, differences>>
Finish ==
  /\ exit = "running" /\ Resolved(roots) /\ position = Len(Comparisons)
  /\ exit' = IF differences = {} THEN "0" ELSE "1"
  /\ UNCHANGED <<roots, position, differences>>

DiffNext == ResolveRoots \/ Compare \/ Finish

-----------------------------------------------------------------------------
(* What a migrated profile is, said of the trees.                          *)

Children(n) ==
  [s \in {StepsTo(n, i) : i \in 1..Len(n.items)} |->
     Child(n, CHOOSE i \in 1..Len(n.items) : StepsTo(n, i) = s)]

Vacuous(n) == \A m \in Subtrees(n) : m.node # "scalar"
Filled(n) == {s \in DOMAIN Children(n) : ~Vacuous(Children(n)[s])}

\* Equal up to the order of keys, the spelling of integers and empty collections.
SameTree(one, other) ==
  LET same[t \in Subtrees(one) \X Subtrees(other)] ==
        LET a == t[1]
            b == t[2]
        IN  IF a.node = "scalar" \/ b.node = "scalar"
              THEN a.node = b.node /\ equivalent(a, b)
              ELSE /\ Filled(a) = Filled(b)
                   /\ \A s \in Filled(a) : same[<<Children(a)[s], Children(b)[s]>>]
  IN  same[<<one, other>>]

Without(items, keys) == SelectSeq(items, LAMBDA i : i.key \notin keys)
Entries(items, key) == SelectSeq(items, LAMBDA i : i.key = key)

\* The entries of the second tree put into the first, mapping by mapping.
Merged(first, second) ==
  LET merged[t \in Subtrees(first) \X Subtrees(second)] ==
        LET a    == t[1]
            b    == t[2]
            keys == {b.items[i].key : i \in 1..Len(b.items)}
        IN  IF a.node # "map" \/ b.node # "map" THEN b
            ELSE Map(Without(a.items, keys) \o
                     [i \in 1..Len(b.items) |->
                        LET old == Entries(a.items, b.items[i].key)
                        IN  IF old = <<>> THEN b.items[i]
                            ELSE Joined(b.items[i].key, merged[<<old[1].value, b.items[i].value>>])])
  IN  merged[<<first, second>>]

MigratedProfile(root, ti5) ==
  LET cut   == IF ti5 THEN Without(root.items, {Named(k) : k \in Sections}) \o TI5_CSP_OVERLAY.items
                      ELSE root.items
      sdos  == Entries(cut, Named("sdo"))
      rest  == Without(cut, {Named("sdo"), Named("auto_state_transitions")})
  IN  Map(rest \o
          <<Item("auto_state_transitions", Bool("false")),
            Item("sdo", List(SyncTolerance(IF ti5 THEN "uint32" ELSE "uint16").items
                               \o (IF sdos = <<>> THEN <<>> ELSE sdos[1].value.items)))>>)

Migrated(r, c) ==
  CASE c.axis = "updown"       -> XMC_UPDOWN_SW511_PROFILE
    [] c.axis = "joint_limits" -> Merged(r.legacy[c.legacy].root, XMC_UPDOWN_LIMITS)
    [] OTHER                   -> MigratedProfile(r.legacy[c.legacy].root, c.ti5)

Usable(d) == d.read = "tree" /\ d.root.node # "scalar"
FullyMigrated(r) ==
  /\ Resolved(r)
  /\ \A i \in 1..Len(Comparisons) :
       LET c == Comparisons[i]
       IN  /\ HasLegacy(c) => Usable(r.legacy[c.legacy])
           /\ Usable(r.target[c.target])
           /\ SameTree(Migrated(r, c), r.target[c.target].root)

\* Mappings whose keys are distinct names, none of which only begins like a section's.
Plain(d) ==
  d.read = "tree" =>
    \A n \in Subtrees(d.root) : n.node = "map" =>
      /\ IsInjective([i \in 1..Len(n.items) |-> n.items[i].key])
      /\ \A i \in 1..Len(n.items) :
           /\ Len(n.items[i].key) = 1
           /\ n.items[i].key[1].key \notin LongerNames
PlainRoots(r) ==
  /\ \A f \in DOMAIN r.legacy : Plain(r.legacy[f])
  /\ \A f \in DOMAIN r.target : Plain(r.target[f])

\* compare_configuration() works on flattened maps, where an overlay is a matter of
\* renumbered paths: on files with plain keys its verdict is nevertheless the one about the
\* trees.  It passes exactly when every file could be read and every profile and the limits
\* are the legacy ones with the approved changes, up to key order, integer spelling and
\* empty lists.
PassMeansMigrated ==
  exit # "running" /\ PlainRoots(roots) => (exit = "0" <=> FullyMigrated(roots))

=============================================================================
