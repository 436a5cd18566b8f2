---------------------------- MODULE FuzzHarness ----------------------------
(***************************************************************************)
(* The fuzz harnesses of a session: which function is offered for one, how *)
(* one is built outside the checkout against a library others rebuild, and *)
(* which of its binaries a campaign is given (src/lib/fuzz_harness.py); and *)
(* the sibling of the build that carries libFuzzer's counters              *)
(* (src/lib/coverage_build.py).                                            *)
(*                                                                         *)
(* There is one harness; its text is edited and put back.  A library is    *)
(* known by its tree and version; a version is never had twice, since the  *)
(* digest of a binary takes the metadata of the file.  A link leaves a     *)
(* whole file or none.                                                     *)
(***************************************************************************)
EXTENDS Integers, FiniteSets, SequencesExt

CONSTANTS
    Symbols,       \* what a library may export, in sort order
    Base,          \* symbol -> its name without a width suffix, or ""
    Qualified,     \* symbol -> its demangled name, as a sequence; empty for C
    Headers,       \* names the public headers declare
    ShapesOf,      \* declared name -> shapes of its parameters
    Supplied,      \* shapes the threat model's controls can supply
    Reserved,      \* names that begin with an underscore
    Texts,         \* what the harness source may say
    Calls,         \* text -> the names it calls, as sequences
    Unfaithful,    \* texts no caller could stand behind
    OwnCalls       \* calls of the project's own harnesses

CONSTANTS
    Builders,      \* processes that run bin/fuzz build
    Libraries,     \* [runtime, hooks, exports]: what a recipe may leave
    Revs,          \* signatures of the target's source; 0 is no stamp
    MaxVersion,    \* bound: rebuilds of a tree
    MaxEvents      \* bound: builds, rebuilds, edits and kills

VARIABLES
    lib,      \* tree -> the library in it
    text,     \* the harness source
    job,      \* builder -> the build under way
    bins,     \* digest -> the binary under that name
    mans,     \* digest -> its manifest
    order,    \* digests by the time their binary was linked
    told,     \* digests a build answered with
    odd,      \* history: digest -> what crossed its build
    was,      \* history: the libraries that were the choice so far, and whether one was again
    events

world == <<lib, text, was>>
files == <<bins, mans, order>>
harnessVars == <<world, job, files, told, odd, events>>

Trees == {"plain", "sib"}

-----------------------------------------------------------------------------
(* Which functions are offered *)

Rank(s) == CHOOSE i \in DOMAIN Symbols : Symbols[i] = s

\* suffix_aliases: of several widths the first one.
BasesIn(exported) == {Base[s] : s \in exported} \ ({""} \cup exported)
AliasOf(b, exported) ==
    CHOOSE s \in exported : Base[s] = b /\ \A t \in exported : Base[t] = b => Rank(s) <= Rank(t)

\* unique_identifiers: a bare name two qualified names share is nobody's.
Mangled(exported) == {s \in exported : Qualified[s] # <<>>}
Unique(exported) ==
    {s \in Mangled(exported) :
        /\ Last(Qualified[s]) \notin exported
        /\ \A t \in Mangled(exported) : Last(Qualified[t]) = Last(Qualified[s]) => Qualified[t] = Qualified[s]}
SourceName(s, exported) == IF s \in Unique(exported) THEN Last(Qualified[s]) ELSE s

\* resolve_declaration
Declaration(s, exported) ==
    IF s \in Headers THEN {s}
    ELSE IF Base[s] \in BasesIn(exported) \cap Headers THEN {Base[s]}
    ELSE Headers \cap (IF s \in Unique(exported) THEN {SourceName(s, exported)} ELSE {})
Declared(exported) == {s \in exported : Declaration(s, exported) # {}}

\* Bug: only what a header spells literally agrees.
AgreesLiterally(exported) == exported \cap Headers

\* declared_exports: of a family of widths, one.
Agrees(exported) ==
    LET plain == (exported \cap Headers) \cup {AliasOf(b, exported) : b \in BasesIn(exported) \cap Headers}
    IN plain \cup {s \in Unique(exported) \ plain : SourceName(s, exported) \in Headers}

\* _driven: a partly qualified call counts where it fits one name only, a bare
\* one never for a method.
Driven(calls, exported) ==
    LET names == {Last(c) : c \in calls}
        fits(c) == IF \E s \in Mangled(exported) : Qualified[s] = c THEN {c}
                   ELSE {Qualified[s] : s \in {t \in Mangled(exported) : IsStrictSuffix(c, Qualified[t])}}
    IN (names \cap exported)
         \cup {AliasOf(b, exported) : b \in names \cap BasesIn(exported)}
         \cup {s \in Unique(exported) : Len(Qualified[s]) = 1 /\ Last(Qualified[s]) \in names}
         \cup {s \in Mangled(exported) : \E c \in calls : Len(c) > 1 /\ fits(c) = {Qualified[s]}}

\* gate
Blockers(s, exported, driven) ==
    {b \in {"reserved", "no-parameter", "covered"} :
        \/ b = "reserved" /\ SourceName(s, exported) \in Reserved
        \/ b = "no-parameter" /\ \A d \in Declaration(s, exported) : ShapesOf[d] \cap Supplied = {}
        \/ b = "covered" /\ s \in driven}

\* candidates: what no header names is internal.
Offered(exported, calls) ==
    {s \in Declared(exported) : Blockers(s, exported, Driven(calls, exported)) = {}}

-----------------------------------------------------------------------------
(* Which library a harness is linked with *)

\* stale_reason: a tree without a stamp is taken as offered.
Stale == 0 \notin {lib["sib"].sig, lib["plain"].sig} /\ lib["sib"].sig # lib["plain"].sig

\* coverage_library
Tree == IF lib["sib"].version > 0 /\ ~Stale THEN "sib" ELSE "plain"
Choice == <<Tree, lib[Tree].version>>
Exported == lib[Tree].what.exports

\* is_coverage_instrumented: any hook counts.
Instrumented(l) == l.hooks # {}

\* _verify_fuzz_tree: the counters, and none of the guards libFuzzer rejects.
Verified(l) == "counters" \in l.hooks /\ "guards" \notin l.hooks

\* startup_failure: nothing with guards starts, nor a second sanitizer runtime.
Starts(b) == "guards" \notin b.what.hooks /\ ~(b.what.runtime = "own" /\ b.sanitized)
TwoRuntimes(b) == "guards" \notin b.what.hooks /\ b.what.runtime = "own" /\ b.sanitized

-----------------------------------------------------------------------------
(* build *)

NoBuild == [pc |-> "off", held |-> "", read |-> "", key |-> <<>>, guided |-> FALSE]
TextOf(k) == k[1]
LibraryOf(k) == <<k[2], k[3]>>

Go(p, pc) == job' = [job EXCEPT ![p].pc = pc]
Ended(p) == job' = [job EXCEPT ![p] = NoBuild]
Happens == events < MaxEvents /\ events' = events + 1
With(f, k, v) == [x \in DOMAIN f \cup {k} |-> IF x = k THEN v ELSE f[x]]
Without(f, k) == [x \in DOMAIN f \ {k} |-> f[x]]
OddOf(k) == IF k \in DOMAIN odd THEN odd[k] ELSE {}
Cross(k, what) == odd' = IF what \subseteq OddOf(k) THEN odd ELSE With(odd, k, OddOf(k) \cup what)
Others(p, k) == {q \in Builders \ {p} : job[q].key = k}

\* hold_shared_build: the tree the library is in now, if it is there.
Hold(p) ==
    /\ Happens
    /\ job[p].pc = "off"
    /\ job' = [job EXCEPT ![p] = [NoBuild EXCEPT !.pc = "check", !.held = Tree]]
    /\ UNCHANGED <<world, files, told, odd>>

\* contract_violations; a path inside the checkout is refused before
\* (reject_in_tree_source).
Check(p) ==
    /\ job[p].pc = "check"
    /\ \/ text \notin Unfaithful /\ job' = [job EXCEPT ![p].pc = "identify", ![p].read = text]
       \/ Ended(p)
    /\ UNCHANGED <<world, files, told, odd, events>>

\* Bug: the digest leaves the library out, so one binary serves them all.
DigestOfSource(t, choice) == <<t, "plain", 1>>

\* build_identity
Digest(t, choice) == <<t, choice[1], choice[2]>>

\* A missing library is an error; a binary of this digest is the answer.
Identify(p) ==
    /\ job[p].pc = "identify"
    /\ LET k == Digest(text, Choice)
       IN IF lib[Tree].version = 0 THEN Ended(p) /\ UNCHANGED <<told, odd>>
          ELSE IF k \in DOMAIN bins
               THEN Ended(p) /\ told' = told \cup {k} /\ Cross(k, IF Others(p, k) # {} THEN {"early"} ELSE {})
          ELSE /\ job' = [job EXCEPT ![p].pc = "compile", ![p].key = k, ![p].guided = Instrumented(lib[Tree].what)]
               /\ Cross(k, (IF Others(p, k) # {} THEN {"shared"} ELSE {})
                             \cup (IF text # job[p].read THEN {"edited"} ELSE {}))
               /\ UNCHANGED told
    /\ UNCHANGED <<world, files, events>>

\* refuse: the binary and its manifest go, whoever made them.
Refuse(p) ==
    /\ Ended(p)
    /\ bins' = Without(bins, job[p].key)
    /\ mans' = Without(mans, job[p].key)
    /\ UNCHANGED <<order, odd>>

\* compile_once: the source and the library as they are now.
Link(p, sanitized, then) ==
    LET k == job[p].key
        l == lib[k[2]]
    IN /\ Go(p, then)
       /\ bins' = With(bins, k, [text |-> text, version |-> l.version, what |-> l.what, sanitized |-> sanitized])
       /\ order' = Append(Remove(order, k), k)
       /\ Cross(k, (IF text # TextOf(k) THEN {"edited"} ELSE {})
                     \cup (IF l.version # k[3] THEN {"moved"} ELSE {})
                     \cup (IF LibraryOf(k) # Choice THEN {"late"} ELSE {}))
       /\ UNCHANGED mans

\* A library of another toolchain does not link with the sanitizer.
Compile(p) ==
    /\ job[p].pc = "compile"
    /\ \/ lib[job[p].key[2]].what.runtime # "locked" /\ Link(p, TRUE, "start")
       \/ Refuse(p)
    /\ UNCHANGED <<world, told, events>>

CompileBare(p) ==
    /\ job[p].pc = "bare"
    /\ Link(p, FALSE, "start-bare") \/ Refuse(p)
    /\ UNCHANGED <<world, told, events>>

\* What is under the name now is started.
Start(p) ==
    /\ job[p].pc \in {"start", "start-bare"}
    /\ LET k == job[p].key
           here == k \in DOMAIN bins
       IN IF here /\ Starts(bins[k]) THEN
               Go(p, IF job[p].pc = "start" THEN "record" ELSE "record-bare") /\ UNCHANGED <<files, odd>>
          ELSE IF here /\ TwoRuntimes(bins[k]) /\ job[p].pc = "start" THEN Go(p, "bare") /\ UNCHANGED <<files, odd>>
          ELSE Refuse(p)
    /\ UNCHANGED <<world, told, events>>

\* write_manifest: of the source as it is now.
Record(p) ==
    /\ job[p].pc \in {"record", "record-bare"}
    /\ LET k == job[p].key
       IN /\ mans' = With(mans, k, [text |-> text, sanitized |-> job[p].pc = "record", guided |-> job[p].guided])
          /\ told' = told \cup {k}
          /\ Cross(k, IF text # TextOf(k) THEN {"edited"} ELSE {})
    /\ Ended(p)
    /\ UNCHANGED <<world, bins, order, events>>

\* The binary of a killed build stays without a manifest.
Kill(p) ==
    /\ Happens
    /\ job[p].pc \notin {"off", "check", "identify"}
    /\ Cross(job[p].key, {"killed"}) /\ Ended(p)
    /\ UNCHANGED <<world, files, told>>

-----------------------------------------------------------------------------
(* The session and the setup at work *)

\* The choice, when it becomes another one.
Noted ==
    LET now == <<Tree', lib'[Tree'].version>>
    IN was' = IF now = Choice THEN was
              ELSE [seen |-> was.seen \cup {Choice}, again |-> was.again \/ now \in was.seen]

\* A rebuild has the tree to itself.
Free(tree) == \A p \in Builders : job[p].held # tree
Installed(tree, sig, what) ==
    /\ Happens /\ lib[tree].version < MaxVersion /\ Free(tree)
    /\ lib' = [lib EXCEPT ![tree] = [version |-> @.version + 1, sig |-> sig, what |-> what]]

Rebuild ==
    /\ \E sig \in Revs, what \in Libraries : Installed("plain", sig, what)
    /\ Noted /\ UNCHANGED <<text, job, files, told, odd>>

\* coverage_build.materialize: beside a fresh primary; what does not verify is
\* not installed.
RebuildSibling ==
    /\ lib["plain"].version > 0 /\ lib["plain"].sig # 0
    /\ \E what \in Libraries : Verified(what) /\ Installed("sib", lib["plain"].sig, what)
    /\ Noted /\ UNCHANGED <<text, job, files, told, odd>>

Edit ==
    /\ Happens
    /\ \E t \in Texts : t # text /\ text' = t
    /\ UNCHANGED <<lib, was, job, files, told, odd>>

HarnessInit ==
    /\ \E sig \in Revs, plain, beside \in Libraries, sibling \in {0, 1} :
           /\ Verified(beside) /\ (sig = 0 => sibling = 0)
           /\ lib = [t \in Trees |-> IF t = "plain" THEN [version |-> 1, sig |-> sig, what |-> plain]
                                    ELSE [version |-> sibling, sig |-> sig, what |-> beside]]
    /\ text \in Texts
    /\ job = [p \in Builders |-> NoBuild]
    /\ bins = <<>> /\ mans = <<>>
    /\ order = <<>> /\ told = {}
    /\ odd = <<>>
    /\ was = [seen |-> {}, again |-> FALSE]
    /\ events = 0

HarnessNext ==
    \/ \E p \in Builders : Hold(p) \/ Check(p) \/ Identify(p) \/ Compile(p) \/ CompileBare(p)
                            \/ Start(p) \/ Record(p) \/ Kill(p)
    \/ Rebuild \/ RebuildSibling \/ Edit

HarnessSpec == HarnessInit /\ [][HarnessNext]_harnessVars

-----------------------------------------------------------------------------
(* What a campaign is given *)

Listed == DOMAIN bins \cap DOMAIN mans

\* _matches_source
Current(k) == mans[k].text = text
Newer(k, j) == Last(SelectSeq(order, LAMBDA d : d \in {j, k})) = k

\* Bug: the newest binary, of whatever source.
PrefersNewest(k, j) == Newer(k, j)

\* _prefer
Prefers(k, j) == IF Current(k) # Current(j) THEN Current(k) ELSE Newer(k, j)

\* built_harnesses
Pick == {k \in Listed : \A j \in Listed : j # k => Prefers(k, j)}

-----------------------------------------------------------------------------
(* Properties *)

Stages == {"off", "check", "identify", "compile", "bare", "start", "start-bare", "record", "record-bare"}
Keys == Texts \X Trees \X Nat
Binaries == [text : Texts, version : Nat, what : Libraries, sanitized : BOOLEAN]
Manifests == [text : Texts, sanitized : BOOLEAN, guided : BOOLEAN]

\* The types; a build has a key from the digest on.
HarnessTypeOK ==
    /\ lib \in [Trees -> [version : Nat, sig : Revs, what : Libraries]]
    /\ text \in Texts
    /\ job \in [Builders -> [pc : Stages, held : Trees \cup {""}, read : Texts \cup {""},
                             key : Keys \cup {<<>>}, guided : BOOLEAN]]
    /\ \A p \in Builders : job[p].key = <<>> <=> job[p].pc \in {"off", "check", "identify"}
    /\ DOMAIN bins \subseteq Keys /\ \A k \in DOMAIN bins : bins[k] \in Binaries
    /\ DOMAIN mans \subseteq Keys /\ \A k \in DOMAIN mans : mans[k] \in Manifests
    /\ told \subseteq Keys

\* A campaign is given a binary that starts, of a faithful source, and guided
\* when it is said to be; that is the source as it stands, if it is said to be.
\* Excepted are digests that two builds made at once, and those whose source or
\* library changed while they were made.
GivenIsSound ==
    \A k \in Pick : OddOf(k) \cap {"edited", "moved", "shared"} = {} =>
        /\ Starts(bins[k]) /\ bins[k].sanitized = mans[k].sanitized
        /\ bins[k].text \notin Unfaithful
        /\ (mans[k].guided => "counters" \in bins[k].what.hooks)
        /\ (Current(k) => bins[k].text = text)

\* A source put back to what it was is given the binary built of it then.
RevertIsGiven == \A k \in Pick : (\E j \in Listed : Current(j)) => Current(k)

\* What a build answered with is there to be given, unless a build of it was
\* killed after the link, two ran at once, or it was answered before the other
\* had started it.
AnswerIsListed == \A k \in told : OddOf(k) \cap {"killed", "shared", "early"} = {} => k \in Listed

\* Once a build answered for the source and the library of today, a campaign is
\* not given a binary of another library, unless that library was the choice
\* before, and another between; or builds overlapped the change.
GivenIsOfLibrary ==
    \A k \in told :
        /\ TextOf(k) = text /\ LibraryOf(k) = Choice /\ ~was.again
        /\ \A j \in Listed : Current(j) => OddOf(j) = {}
        /\ OddOf(k) = {}
        => \A j \in Pick : LibraryOf(j) = Choice /\ bins[j].version = lib[Tree].version

\* What a harness calls by the name the headers give it is not offered again,
\* unless the library has it in several widths.
OfferedOnce ==
    \A calls \in {Calls[text], OwnCalls} : \A c \in calls :
        \A s \in Offered(Exported, Calls[text] \cup OwnCalls) :
            /\ c # <<s>> /\ c # Qualified[s]
            /\ c = <<Base[s]>> => \E t \in Exported : t # s /\ (t = Base[s] \/ Base[t] = Base[s])

\* The setup's check of the route finds a declared function exactly when the
\* gate would.
RouteAgrees == Agrees(Exported) = {} <=> Declared(Exported) = {}
=============================================================================
