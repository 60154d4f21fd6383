------------------------------ MODULE Toolchains ------------------------------
(***************************************************************************)
(* The life of a toolchain route (toolchain_cache.py, toolchain_inputs.py, *)
(* toolchain_prepare.py, toolchain_qualification.py, toolchain_packs.py):  *)
(* operators pull its pack, prepare the archive, bind the private input,   *)
(* compose and qualify, each command from the state that it resolved when  *)
(* it began; builds resolve the tools of the qualified route.  Every store *)
(* is addressed by a digest and filled under a lock of that digest.        *)
(*                                                                         *)
(* One route of one pack and one input.  A digest is what it is computed   *)
(* from; a stored thing carries its content, which no operation sees but   *)
(* by its digest.  Staging directories of killed commands, which nothing   *)
(* reads, are left out, and so are the host check and power losses.        *)
(***************************************************************************)
EXTENDS Naturals, Sequences, FiniteSets

CONSTANTS
    Operator,
    Pack, Input,        \* digests of archives; of private inputs
    Revisions,          \* the route's authority through its reviews
    FetchAttempts,      \* DEFAULT_ATTEMPTS
    MaxToolFaults,      \* bound: kills and rotten payloads
    Unset

ASSUME ToolchainsAssumption ==
    /\ Revisions \in Seq([pack : Pack, root : Nat, composition : BOOLEAN])
    /\ Revisions # <<>>
    /\ FetchAttempts \in Nat \ {0} /\ MaxToolFaults \in Nat

VARIABLES
    revision,       \* the authority in force
    payloads,       \* downloads/<digest>: Unset, or the content's digest
    trees,          \* prepared/<digest>
    materials,      \* inputs/<digest>
    binding,        \* bindings/<input>.json: the digest it names
    composed,       \* composed/<route>/<material digest>
    qualified,      \* qualified/<route>/<material digest>
    commands,
    toolFaults

toolVars == <<revision, payloads, trees, materials, binding, composed, qualified,
              commands, toolFaults>>
stores == <<payloads, trees, materials, binding, composed, qualified>>

\* route_material_digest covers the reviewed route, definition and packs, and
\* the digest of the bound input.
Material(n, input) == [route |-> Revisions[n], input |-> input]
MaterialDigests == {Material(n, i) : n \in DOMAIN Revisions, i \in Input}

NoCommand == [do |-> "rest"]

ToolchainsInit ==
    /\ revision = 1
    /\ payloads = [p \in Pack |-> Unset]
    /\ trees = [p \in Pack |-> Unset]
    /\ materials = {} /\ binding = Unset
    /\ composed = [m \in MaterialDigests |-> Unset]
    /\ qualified = [m \in MaterialDigests |-> Unset]
    /\ commands = [o \in Operator |-> NoCommand]
    /\ toolFaults = 0

-----------------------------------------------------------------------------
(* The read-only inspections, and resolve_toolchain_profile.               *)

\* inspect_cached compares the bytes.
CachedState(p) == IF payloads[p] = Unset THEN "missing"
                  ELSE IF payloads[p] = p THEN "verified-cached" ELSE "broken"

\* inspect_prepared reads the manifest and looks for the archive's root.
PreparedState(p, root) == IF trees[p] = Unset THEN "missing"
                          ELSE IF trees[p].root = root THEN "prepared" ELSE "broken"

BindingState == IF binding = Unset THEN "missing"
                ELSE IF binding \in materials THEN "bound-verified" ELSE "broken"

\* inspect_composition and inspect_qualification: a directory that got its
\* name has its manifest.
ComposedState(m) == IF composed[m] = Unset THEN "missing" ELSE "composed"
QualifiedState(m) == IF qualified[m] = Unset THEN "missing" ELSE "qualified"

\* Of the packs and the input, before anything is composed.
PrerequisiteState(route) ==
    CASE CachedState(route.pack) = "broken" -> "broken"
      [] CachedState(route.pack) = "missing" -> "download-required"
      [] PreparedState(route.pack, route.root) = "broken" -> "broken"
      [] PreparedState(route.pack, route.root) = "missing" -> "preparation-required"
      [] BindingState = "broken" -> "broken"
      [] BindingState = "missing" -> "input-required"
      [] OTHER -> "prepared-unqualified"

\* The state of the profile is that of its one route.
RouteState ==
    LET route == Revisions[revision]
        m == Material(revision, binding)
    IN  IF PrerequisiteState(route) # "prepared-unqualified" THEN PrerequisiteState(route)
        ELSE IF route.composition /\ ComposedState(m) = "missing" THEN "composition-required"
        ELSE IF QualifiedState(m) = "missing" THEN "qualification-required"
        ELSE "qualified"

-----------------------------------------------------------------------------
(* The commands: what they refuse from the state they resolved, and the    *)
(* snapshot that they work with.                                           *)

At(o, step) == commands[o].do = step
Does(o, step) == commands' = [commands EXCEPT ![o].do = step]
Finishes(o) == commands' = [commands EXCEPT ![o] = NoCommand]

Begins(o, step) ==
    /\ At(o, "rest")
    /\ commands' = [commands EXCEPT ![o] =
          [do |-> step, pack |-> Revisions[revision].pack, root |-> Revisions[revision].root,
           composition |-> Revisions[revision].composition, input |-> binding, tries |-> 0,
           material |-> IF binding = Unset THEN Unset ELSE Material(revision, binding)]]
    /\ UNCHANGED <<stores, revision, toolFaults>>

BeginPull(o) == Begins(o, "pull")
BeginPrepare(o) ==
    CachedState(Revisions[revision].pack) = "verified-cached" /\ Begins(o, "prepare")
BeginBind(o) == Begins(o, "bind")
BeginCompose(o) ==
    /\ Revisions[revision].composition
    /\ RouteState \in {"composition-required", "qualification-required", "qualified"}
    /\ Begins(o, "compose")
BeginQualify(o) ==
    RouteState \in {"qualification-required", "qualified"} /\ Begins(o, "qualify")

\* A flock per digest: of the payload, of the archive, of the material.
Unlocked(step, key, of) == \A x \in Operator : ~(At(x, step) /\ commands[x][key] = of)

Calm == UNCHANGED <<revision, toolFaults>>

-----------------------------------------------------------------------------
(* acquire_pinned: the bytes in the cache are verified, broken ones are    *)
(* quarantined, and what is fetched is installed when its digest agrees.   *)

LockPayload(o) ==
    LET p == commands[o].pack IN
    /\ At(o, "pull") /\ Unlocked("fetch", "pack", p)
    /\ IF CachedState(p) = "verified-cached" THEN Finishes(o) /\ UNCHANGED payloads
       ELSE Does(o, "fetch") /\ payloads' = [payloads EXCEPT ![p] = Unset]
    /\ Calm /\ UNCHANGED <<trees, materials, binding, composed, qualified>>

\* A server that is away is asked again; wrong bytes end the command.
Fetch(o) ==
    LET p == commands[o].pack IN
    /\ At(o, "fetch")
    /\ \/ payloads' = [payloads EXCEPT ![p] = p] /\ Finishes(o)
       \/ Finishes(o) /\ UNCHANGED payloads
       \/ /\ commands[o].tries + 1 < FetchAttempts
          /\ commands' = [commands EXCEPT ![o].tries = @ + 1] /\ UNCHANGED payloads
    /\ Calm /\ UNCHANGED <<trees, materials, binding, composed, qualified>>

-----------------------------------------------------------------------------
(* prepare_pinned_archive: the archive is verified before the lock.        *)

VerifyArchive(o) ==
    /\ At(o, "prepare")
    /\ IF CachedState(commands[o].pack) = "verified-cached" THEN Does(o, "verified")
       ELSE Finishes(o)
    /\ Calm /\ UNCHANGED stores

LockTree(o) ==
    LET p == commands[o].pack IN
    /\ At(o, "verified") /\ Unlocked("extract", "pack", p)
    /\ IF PreparedState(p, commands[o].root) = "prepared" THEN Finishes(o) /\ UNCHANGED trees
       ELSE Does(o, "extract") /\ trees' = [trees EXCEPT ![p] = Unset]
    /\ Calm /\ UNCHANGED <<payloads, materials, binding, composed, qualified>>

\* The archive may not hold the reviewed root.
Extract(o) ==
    LET p == commands[o].pack IN
    /\ At(o, "extract")
    /\ Finishes(o)
    /\ \/ /\ payloads[p] # Unset
          /\ trees' = [trees EXCEPT ![p] = [root |-> commands[o].root, of |-> payloads[p]]]
       \/ UNCHANGED trees
    /\ Calm /\ UNCHANGED <<payloads, materials, binding, composed, qualified>>

-----------------------------------------------------------------------------
(* bind_input: the verified copy first, then the binding that names it.    *)

StoreMaterial(o) ==
    /\ At(o, "bind")
    /\ \E i \in Input :
          /\ materials' = materials \cup {i}
          /\ commands' = [commands EXCEPT ![o].do = "binding", ![o].input = i]
    /\ Calm /\ UNCHANGED <<payloads, trees, binding, composed, qualified>>

WriteBinding(o) ==
    /\ At(o, "binding")
    /\ binding' = commands[o].input
    /\ Finishes(o)
    /\ Calm /\ UNCHANGED <<payloads, trees, materials, composed, qualified>>

-----------------------------------------------------------------------------
(* compose_osxcross and qualify_route, for the material of the snapshot.   *)

LockComposition(o) ==
    LET m == commands[o].material IN
    /\ At(o, "compose") /\ Unlocked("composing", "material", m)
    /\ IF ComposedState(m) = "composed" THEN Finishes(o) ELSE Does(o, "composing")
    /\ Calm /\ UNCHANGED stores

\* It reads the prepared tree, which may be gone by now, and the bound input,
\* and build.sh may fail.
Composing(o) ==
    LET c == commands[o] IN
    /\ At(o, "composing")
    /\ Finishes(o)
    /\ \/ /\ trees[c.pack] # Unset /\ trees[c.pack].root = c.root
          /\ c.input \in materials
          /\ composed' = [composed EXCEPT ![c.material] =
                [of |-> trees[c.pack].of, input |-> c.input]]
       \/ UNCHANGED composed
    /\ Calm /\ UNCHANGED <<payloads, trees, materials, binding, qualified>>

\* The tools of a composition, or of the prepared pack.
ToolsOf(m) ==
    IF m.route.composition THEN composed[m]
    ELSE IF PreparedState(m.route.pack, m.route.root) = "prepared"
         THEN [of |-> trees[m.route.pack].of, input |-> m.input]
         ELSE Unset

LockQualification(o) ==
    LET m == commands[o].material IN
    /\ At(o, "qualify") /\ Unlocked("smoking", "material", m)
    /\ IF QualifiedState(m) # "missing" \/ ToolsOf(m) = Unset THEN Finishes(o)
       ELSE Does(o, "smoking")
    /\ Calm /\ UNCHANGED stores

\* The smoke objects are compiled, or the tools fail.
Smoke(o) ==
    LET m == commands[o].material IN
    /\ At(o, "smoking")
    /\ Finishes(o)
    /\ \/ /\ ToolsOf(m) # Unset
          /\ qualified' = [qualified EXCEPT ![m] = ToolsOf(m)]
       \/ UNCHANGED qualified
    /\ Calm /\ UNCHANGED <<payloads, trees, materials, binding, composed>>

\* resolve_qualified_route_tools, when a build is configured: what it answers.
Resolvable ==
    /\ BindingState = "bound-verified"
    /\ QualifiedState(Material(revision, binding)) = "qualified"
    /\ ToolsOf(Material(revision, binding)) # Unset

-----------------------------------------------------------------------------
(* What happens around the commands.                                       *)

Review ==
    /\ revision < Len(Revisions) /\ revision' = revision + 1
    /\ UNCHANGED <<stores, commands, toolFaults>>

\* A payload rots on disk, though not while it is extracted.
Rot(p) ==
    /\ toolFaults < MaxToolFaults /\ toolFaults' = toolFaults + 1
    /\ payloads[p] = p /\ \A o \in Operator : ~At(o, "verified") /\ ~At(o, "extract")
    /\ payloads' = [payloads EXCEPT ![p] = "rotten"]
    /\ UNCHANGED <<revision, trees, materials, binding, composed, qualified, commands>>

KillCommand(o) ==
    /\ ~At(o, "rest") /\ toolFaults < MaxToolFaults /\ toolFaults' = toolFaults + 1
    /\ Finishes(o)
    /\ UNCHANGED <<stores, revision>>

ToolchainsNext ==
    \/ \E o \in Operator :
          \/ BeginPull(o) \/ BeginPrepare(o) \/ BeginBind(o) \/ BeginCompose(o) \/ BeginQualify(o)
          \/ LockPayload(o) \/ Fetch(o) \/ VerifyArchive(o) \/ LockTree(o) \/ Extract(o)
          \/ StoreMaterial(o) \/ WriteBinding(o)
          \/ LockComposition(o) \/ Composing(o) \/ LockQualification(o) \/ Smoke(o)
          \/ KillCommand(o)
    \/ Review
    \/ \E p \in Pack : Rot(p)

ToolchainsSpec == ToolchainsInit /\ [][ToolchainsNext]_toolVars

-----------------------------------------------------------------------------
ToolchainsTypeOK ==
    /\ revision \in DOMAIN Revisions
    /\ payloads \in [Pack -> Pack \cup {"rotten", Unset}]
    /\ materials \subseteq Input /\ binding \in materials \cup {Unset}
    /\ \A p \in Pack : trees[p] # Unset => trees[p].of \in Pack
    /\ DOMAIN composed = MaterialDigests /\ DOMAIN qualified = MaterialDigests
    /\ \A p \in Pack : Cardinality({o \in Operator : At(o, "extract") /\ commands[o].pack = p}) <= 1

\* toolchains/README.md: every operation publishes verified state.  The tools
\* that a build resolves come from the archive and the input of the authority
\* and the binding in force, and they are the tools that the qualification
\* ran: through commands that work from old snapshots, reviews and bindings in
\* between, rotten payloads, kills, and preparations redone for another root.
ToolsGenuine ==
    LET m == Material(revision, binding) IN
    Resolvable =>
        /\ ToolsOf(m).of = Revisions[revision].pack
        /\ ToolsOf(m).input = binding
        /\ qualified[m] = ToolsOf(m)
===============================================================================
