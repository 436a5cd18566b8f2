----------------------------- MODULE SourcePins -----------------------------
(***************************************************************************)
(* lib/build_lease.py: claim_source_pin, the claim a benchmark run makes   *)
(* on a checkout for the source state it is about to measure.              *)
(*                                                                         *)
(* A claim is a file named by the process id, its content the signature,   *)
(* kept locked by the claiming process for its lifetime.  Scanning the     *)
(* others' pins and publishing one's own happen under a registry lock.     *)
(* Processes are killed anywhere; the kernel then drops their locks, their *)
(* files stay, and their ids come back.                                    *)
(***************************************************************************)
EXTENDS FiniteSets

CONSTANTS
    Claimants,        \* process ids
    Sigs          \* source states

NoPin == "absent"     \* no such pin file
Empty == "empty"       \* created, not yet written
Unknown == "unknown"   \* vcs_source_signature's "": no cheap answer
None == "none"

ASSUME PinAssumption ==
    /\ {NoPin, Empty, Unknown, None} \cap Sigs = {}
    /\ None \notin Claimants

VARIABLES
    source,       \* the checkout's state, edited by anyone at any time
    at,
    want,         \* the signature main() read
    pin,          \* pin[p]: the file <p>.pin
    locked,       \* pin files whose owner holds their lock
    registry,     \* holder of .registry.lock
    todo,         \* pins the registry's holder has yet to look at
    conflicts,    \* and those it found to disagree
    claim,        \* claim[p]: what p holds (_KEPT_PINS, and the pin's content)
    gone          \* history: killed since the registry was taken

scan == <<todo, conflicts, gone>>
pinVars == <<source, at, want, pin, locked, registry, scan, claim>>

Inside == {"scan", "lock", "write"}

\* The type of every variable, and the registry's meaning.
PinTypeOK ==
    /\ source \in Sigs
    /\ at \in [Claimants -> {"idle", "registry", "dead"} \cup Inside]
    /\ want \in [Claimants -> Sigs \cup {Unknown}]
    /\ pin \in [Claimants -> Sigs \cup {NoPin, Empty}]
    /\ locked \subseteq Claimants
    /\ registry \in Claimants \cup {None}
    /\ todo \subseteq Claimants /\ conflicts \subseteq Claimants /\ gone \subseteq Claimants
    /\ claim \in [Claimants -> Sigs \cup {None}]
    /\ \A p \in Claimants : registry = p <=> at[p] \in Inside

PinInit ==
    /\ source \in Sigs
    /\ at = [p \in Claimants |-> "idle"]
    /\ want = [p \in Claimants |-> Unknown]
    /\ pin = [p \in Claimants |-> NoPin]
    /\ locked = {}
    /\ registry = None
    /\ todo = {} /\ conflicts = {} /\ gone = {}
    /\ claim = [p \in Claimants |-> None]

MoveTo(p, step) == at' = [at EXCEPT ![p] = step]

-----------------------------------------------------------------------------
\* The checkout is edited, or switched to another commit.
Edit ==
    /\ source' \in Sigs
    /\ UNCHANGED <<at, want, pin, locked, registry, scan, claim>>

\* main() reads the signature; claim_source_pin returns at once on an empty
\* one, and the run goes on without a claim.
ReadSource(p) ==
    /\ at[p] = "idle"
    /\ \/ want' = [want EXCEPT ![p] = source] /\ MoveTo(p, "registry")
       \/ want' = [want EXCEPT ![p] = Unknown] /\ UNCHANGED at
    /\ UNCHANGED <<source, pin, locked, registry, scan, claim>>

\* The registry lock is granted; the glob lists every pin but those this
\* process published (_KEPT_PINS).  A pin an earlier process with the same id
\* left is listed.
Enter(p) ==
    /\ at[p] = "registry" /\ registry = None
    /\ registry' = p
    /\ todo' = {n \in Claimants : pin[n] # NoPin} \ {q \in {p} : claim[q] # None}
    /\ conflicts' = {} /\ gone' = {}
    /\ MoveTo(p, "scan")
    /\ UNCHANGED <<source, want, pin, locked, claim>>

\* Bug: a pin is live when a process has its id.
LiveByPid(n) == at[n] # "dead"

\* Bug: the lock tried is a shared one, which a claim's own lock admits.
LiveNever(n) == FALSE

\* The pin's lock cannot be taken.
Live(n) == n \in locked

\* A pin whose lock is refused conflicts when its content disagrees; one whose
\* lock can be taken has no owner, and is removed.
Examine(p, n) ==
    /\ at[p] = "scan" /\ n \in todo
    /\ todo' = todo \ {n}
    /\ IF Live(n)
         THEN /\ conflicts' = conflicts \cup {m \in {n} : pin[m] \notin {Empty, want[p]}}
              /\ UNCHANGED pin
         ELSE pin' = [pin EXCEPT ![n] = NoPin] /\ UNCHANGED conflicts
    /\ UNCHANGED <<source, at, want, locked, registry, claim, gone>>

\* Bug: the early return leaves the registry locked.
RefuseKeepingRegistry(p) ==
    /\ at[p] = "scan" /\ todo = {} /\ conflicts # {}
    /\ MoveTo(p, "idle")
    /\ UNCHANGED <<source, want, pin, locked, registry, scan, claim>>

\* The claim is refused: the run does not start.
Refuse(p) ==
    /\ at[p] = "scan" /\ todo = {} /\ conflicts # {}
    /\ MoveTo(p, "idle") /\ registry' = None
    /\ UNCHANGED <<source, want, pin, locked, scan, claim>>

\* Bug: the scan ends at the first pin that agrees.
OpenEarly(p) ==
    /\ at[p] = "scan" /\ conflicts = {}
    /\ pin' = [pin EXCEPT ![p] = IF @ = NoPin THEN Empty ELSE @]
    /\ MoveTo(p, "lock")
    /\ UNCHANGED <<source, want, locked, registry, scan, claim>>

\* <pid>.pin is opened, or created empty.
Open(p) ==
    /\ at[p] = "scan" /\ todo = {} /\ conflicts = {}
    /\ pin' = [pin EXCEPT ![p] = IF @ = NoPin THEN Empty ELSE @]
    /\ MoveTo(p, "lock")
    /\ UNCHANGED <<source, want, locked, registry, scan, claim>>

\* Its shared lock: only a scanner could hold the exclusive one, and scanners
\* are kept out by the registry.
Lock(p) ==
    /\ at[p] = "lock"
    /\ locked' = locked \cup {p}
    /\ MoveTo(p, "write")
    /\ UNCHANGED <<source, want, pin, registry, scan, claim>>

\* Truncated, written and kept; the registry is released.
Publish(p) ==
    /\ at[p] = "write"
    /\ pin' = [pin EXCEPT ![p] = want[p]]
    /\ claim' = [claim EXCEPT ![p] = want[p]]
    /\ MoveTo(p, "idle") /\ registry' = None
    /\ UNCHANGED <<source, want, locked, scan>>

\* The run ends, or is killed wherever it is.
KillClaimant(p) ==
    /\ at[p] # "dead"
    /\ locked' = locked \ {p}
    /\ registry' = IF registry = p THEN None ELSE registry
    /\ claim' = [claim EXCEPT ![p] = None]
    /\ gone' = gone \cup {p}
    /\ MoveTo(p, "dead")
    /\ UNCHANGED <<source, want, pin, todo, conflicts>>

\* The process id comes back.
ReuseId(p) ==
    /\ at[p] = "dead"
    /\ MoveTo(p, "idle")
    /\ UNCHANGED <<source, want, pin, locked, registry, scan, claim>>

-----------------------------------------------------------------------------
Claiming(p) ==
    \/ \E n \in Claimants : Examine(p, n)
    \/ Refuse(p) \/ Open(p) \/ Lock(p) \/ Publish(p)

PinNext ==
    \/ Edit
    \/ \E p \in Claimants : ReadSource(p) \/ Enter(p) \/ Claiming(p) \/ KillClaimant(p) \/ ReuseId(p)

\* The registry's holder is a running process that waits for nobody; flock's
\* waiters are woken in turn.
PinFairness == \A p \in Claimants : WF_pinVars(Claiming(p)) /\ SF_pinVars(Enter(p))

PinSpec == PinInit /\ [][PinNext]_pinVars /\ PinFairness

-----------------------------------------------------------------------------
(* Properties *)

\* Two live runs that both hold a claim hold it for the same source state,
\* however the claims, edits and kills that led there interleaved.
LivePinsAgree ==
    \A p, q \in Claimants : claim[p] # None /\ claim[q] # None => claim[p] = claim[q]

\* No scan reaps a live claim from under its owner: its pin is on disk,
\* locked, and says what the owner claimed.
ClaimOnDisk ==
    \A p \in Claimants : claim[p] # None => p \in locked /\ pin[p] = claim[p]

\* Live claims on one checkout agree, and each is on disk for others to find:
\* a claim that a scan could miss would let the next run in with another source.
PinsKept == LivePinsAgree /\ ClaimOnDisk

\* A dead run blocks nobody, not even when its id has come back: a pin
\* is counted as a conflict only when its owner holds a different claim, or
\* died while the scan was still under way.
OnlyLiveBlock ==
    \A p \in Claimants : at[p] = "scan" =>
        \A n \in conflicts : n \in gone \/ claim[n] \notin {None, want[p]}

\* A claim is answered: the registry lock is never left taken.
ClaimAnswered ==
    \A p \in Claimants : at[p] = "registry" ~> at[p] \in {"idle", "dead"}
=============================================================================
