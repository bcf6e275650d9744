------------------------------- MODULE Payload -------------------------------
(***************************************************************************)
(* The runner payload (internal/payload): one tarball per version in the   *)
(* cache, one template directory that is unpacked beside itself and moved  *)
(* into place by two renames, and the copies of it that slots are made of. *)
(*                                                                         *)
(* Ensure runs under the manager's lock, so there is one at a time.  The   *)
(* daemon calls it once, before it starts slots; another call while slots  *)
(* are copied (Again) is what the comment of Manager allows.  The process  *)
(* may end between any two steps; the directories stay.                    *)
(*                                                                         *)
(* A directory is the set of its files, each with the version it comes     *)
(* from; one without files is like none.  File 0 is the marker, which      *)
(* names the version and checksum the template was made for.               *)
(*                                                                         *)
(* Operators whose name starts with Bug are deliberately wrong variants of *)
(* the operator that follows them; no specification uses them.             *)
(***************************************************************************)
EXTENDS Naturals, FiniteSets

CONSTANTS
    Version,     \* versions, each with its checksum
    Files        \* the files in the tarball of a version

Marker == 0

ASSUME PayloadAssumption == \A v \in Version : Files[v] \subseteq Nat \ {Marker}

VARIABLES
    want,        \* the version Ensure was called with
    pc,          \* where Ensure stands; "ready" after it, "down" without a process
    attempt,     \* of verification: 0 or 1
    todo,        \* files still to unpack
    cache,       \* the tarball of each version
    staging,     \* <template>.tmp
    template,    \* the template directory
    aside,       \* the old template during promote
    leftovers,   \* <template>.previous-* of former promotes, while whole
    copy,        \* "none", "running" or "done"
    listed,      \* files still to copy
    slot,        \* the directory they are copied to
    beside       \* Ensure was called since the copy began

ensure == <<want, pc, attempt, todo>>
trees  == <<staging, template, aside, leftovers>>
copies == <<copy, listed, slot, beside>>
vars   == <<ensure, cache, trees, copies>>

-----------------------------------------------------------------------------
(* Directories and tarballs *)

Entries(v) == Files[v] \cup {Marker}
File == UNION {Entries(v) : v \in Version}
Tree == SUBSET (File \X Version)

(* A file written over another of the same name *)
Put(tree, f, v) == {e \in tree : e[1] # f} \cup {<<f, v>>}

Whole(tree, v) == tree = {<<f, v>> : f \in Entries(v)}
IsWhole(tree) == \E v \in Version : Whole(tree, v)

(* No file, an empty one, one with another checksum, the right one *)
Tarball == {"none", "empty", "bad", "good"}

Working == {"begin", "download", "verify", "extract", "unpack", "promote", "moved",
            "installed"}

TypeOK ==
    /\ want \in Version
    /\ pc \in Working \cup {"ready", "down"}
    /\ attempt \in {0, 1}
    /\ todo \subseteq File
    /\ cache \in [Version -> Tarball]
    /\ staging \in Tree /\ template \in Tree /\ aside \in Tree
    /\ leftovers \subseteq Tree
    /\ copy \in {"none", "running", "done"}
    /\ listed \subseteq File
    /\ slot \in Tree
    /\ beside \in BOOLEAN

Init ==
    /\ want \in Version
    /\ pc = "down"
    /\ attempt = 0
    /\ todo = {}
    /\ cache = [v \in Version |-> "none"]
    /\ staging = {} /\ template = {} /\ aside = {} /\ leftovers = {}
    /\ copy = "none" /\ listed = {} /\ slot = {} /\ beside = FALSE

-----------------------------------------------------------------------------
(* The process *)

Call(v) ==
    /\ want' = v
    /\ pc' = "begin"
    /\ UNCHANGED <<attempt, todo, cache, trees, copy, listed, slot>>

(* newDaemon, with the configured or the latest version *)
Boot(v) == pc = "down" /\ Call(v) /\ UNCHANGED beside

(* Another call of Ensure, beside the copies *)
Again(v) == pc = "ready" /\ Call(v) /\ beside' = TRUE

(* What a process that ends leaves behind: files *)
Ended ==
    /\ pc' = "down"
    /\ attempt' = 0
    /\ todo' = {}
    /\ aside' = {}
    /\ copy' = "none" /\ listed' = {} /\ slot' = {} /\ beside' = FALSE
    /\ UNCHANGED want

KeepAside == leftovers' = leftovers \cup ({aside} \ {{}})

Crash ==
    /\ pc # "down"
    /\ Ended
    /\ KeepAside
    /\ UNCHANGED <<cache, staging, template>>

-----------------------------------------------------------------------------
(* Ensure: eviction, the marker, the cache *)

BugMatches == template # {}     \* does not read the marker
(* templateMatches *)
Matches == <<Marker, want>> \in template

Usable(tarball) == tarball \in {"bad", "good"}

(* evictStaleTarballs: every removal may fail *)
Evicted == {c \in [Version -> Tarball] : \A v \in Version :
                IF v = want THEN c[v] = cache[v] ELSE c[v] \in {"none", cache[v]}}

Begin ==
    /\ pc = "begin"
    /\ cache' \in Evicted
    /\ pc' = CASE Matches -> "ready"
               [] ~Matches /\ Usable(cache[want]) -> "verify"
               [] OTHER -> "download"
    /\ attempt' = 0
    /\ UNCHANGED <<want, todo, trees, copies>>

(* The body goes to a temporary file, which takes the place of the old one *)
Download(tarball) ==
    /\ pc = "download"
    /\ tarball # "none"
    /\ cache' = [cache EXCEPT ![want] = tarball]
    /\ pc' = "verify"
    /\ UNCHANGED <<want, attempt, todo, trees, copies>>

(* The checksum is the wanted one *)
Good(tarball) == tarball = "good"

Verified ==
    /\ pc = "verify"
    /\ Good(cache[want])
    /\ pc' = "extract"
    /\ UNCHANGED <<want, attempt, todo, cache, trees, copies>>

(* The first mismatch *)
MayRetry == attempt = 0

(* Remove the tarball and download it again *)
Redownload ==
    /\ pc = "verify"
    /\ ~Good(cache[want])
    /\ MayRetry
    /\ cache' = [cache EXCEPT ![want] = "none"]
    /\ attempt' = attempt + 1
    /\ pc' = "download"
    /\ UNCHANGED <<want, todo, trees, copies>>

(* The second: an error.  The removal is not checked. *)
Mismatch ==
    /\ pc = "verify"
    /\ ~Good(cache[want])
    /\ ~MayRetry
    /\ cache' \in {cache, [cache EXCEPT ![want] = "none"]}
    /\ Ended
    /\ UNCHANGED <<staging, template, leftovers>>

-----------------------------------------------------------------------------
(* extract *)

BugCleared == staging           \* unpacks over what is there
(* RemoveAll of the staging directory, MkdirAll *)
Cleared == {}

ClearStaging ==
    /\ pc = "extract"
    /\ staging' = Cleared
    /\ todo' = Files[want]
    /\ pc' = "unpack"
    /\ UNCHANGED <<want, attempt, cache, template, aside, leftovers, copies>>

Unpack(f) ==
    /\ pc = "unpack"
    /\ f \in todo
    /\ staging' = Put(staging, f, want)
    /\ todo' = todo \ {f}
    /\ UNCHANGED <<want, pc, attempt, cache, template, aside, leftovers, copies>>

WriteMarker ==
    /\ pc = "unpack"
    /\ todo = {}
    /\ staging' = Put(staging, Marker, want)
    /\ pc' = "promote"
    /\ UNCHANGED <<want, attempt, todo, cache, template, aside, leftovers, copies>>

-----------------------------------------------------------------------------
(* promote *)

BugMoveAside ==                 \* leaves the old tree where the new one is to go
    /\ pc = "promote"
    /\ pc' = "moved"
    /\ UNCHANGED <<want, attempt, todo, cache, trees, copies>>

BugRemoveOld ==                 \* removes the old tree instead of moving it
    /\ pc = "promote"
    /\ template' = {}
    /\ pc' = "moved"
    /\ UNCHANGED <<want, attempt, todo, cache, staging, aside, leftovers, copies>>

MoveAside ==
    /\ pc = "promote"
    /\ aside' = template
    /\ template' = {}
    /\ pc' = "moved"
    /\ UNCHANGED <<want, attempt, todo, cache, staging, leftovers, copies>>

(* A rename onto a directory with files fails *)
Install ==
    /\ pc = "moved"
    /\ template = {}
    /\ template' = staging
    /\ staging' = {}
    /\ pc' = "installed"
    /\ UNCHANGED <<want, attempt, todo, cache, aside, leftovers, copies>>

(* The backup is removed, in part or whole, or stays *)
DropAside(rest) ==
    /\ pc = "installed"
    /\ leftovers' = leftovers \cup ({rest} \ {{}})
    /\ aside' = {}
    /\ pc' = "ready"
    /\ UNCHANGED <<want, attempt, todo, cache, staging, template, copies>>

BugRestored == staging          \* the new tree stays although Ensure fails
(* rollback: the old tree is put back, *)
Restored == aside

(* The deferred removal of the staging directory *)
StagingRemoved == staging' \in SUBSET staging

(* Cancelled, or the rename failed, with the old tree set aside *)
RollBack ==
    /\ pc = "moved"
    /\ template' = IF template = {} THEN Restored ELSE template
    /\ StagingRemoved
    /\ Ended
    /\ UNCHANGED <<cache, leftovers>>

(* ... or cannot be put back. *)
RollBackFails ==
    /\ pc = "moved"
    /\ aside # {}
    /\ KeepAside
    /\ StagingRemoved
    /\ Ended
    /\ UNCHANGED <<cache, template>>

(* Any other error, or the deadline: newDaemon gives up.  Before Ensure    *)
(* has staged anything no staging directory is removed; that its removal   *)
(* failed half way is an error too.                                        *)
Fails ==
    /\ pc \in {"begin", "download", "verify", "extract", "unpack", "promote"}
    /\ IF pc \in {"extract", "unpack", "promote"} THEN StagingRemoved ELSE UNCHANGED staging
    /\ Ended
    /\ UNCHANGED <<cache, template, leftovers>>

-----------------------------------------------------------------------------
(* CopySlotIntoContext: WalkDir lists the names and opens each by its path *)

CopyBegin ==
    /\ pc = "ready"
    /\ copy # "running"
    /\ copy' = "running"
    /\ listed' = {e[1] : e \in template}
    /\ slot' = {}
    /\ beside' = FALSE
    /\ UNCHANGED <<ensure, cache, trees>>

CopyFile(f, v) ==
    /\ copy = "running"
    /\ f \in listed /\ \A g \in listed : f <= g
    /\ <<f, v>> \in template
    /\ slot' = slot \cup {<<f, v>>}
    /\ listed' = listed \ {f}
    /\ UNCHANGED <<ensure, cache, trees, copy, beside>>

BugCopyDone ==                  \* takes a copy that was cut for a whole one
    /\ copy = "running"
    /\ copy' = "done"
    /\ listed' = {}
    /\ UNCHANGED <<ensure, cache, trees, slot, beside>>

CopyDone ==
    /\ copy = "running"
    /\ listed = {}
    /\ copy' = "done"
    /\ UNCHANGED <<ensure, cache, trees, listed, slot, beside>>

(* A file is gone, or the start of the slot is cancelled *)
CopyFails ==
    /\ copy = "running"
    /\ copy' = "none"
    /\ listed' = {}
    /\ slot' = {}
    /\ beside' = FALSE
    /\ UNCHANGED <<ensure, cache, trees>>

-----------------------------------------------------------------------------
(* The specification *)

EnsureStep ==
    \/ Begin \/ Verified \/ Redownload
    \/ \E tarball \in Tarball : Download(tarball)
    \/ ClearStaging \/ (\E f \in todo : Unpack(f)) \/ WriteMarker
    \/ MoveAside \/ Install \/ (\E rest \in {{}, aside} : DropAside(rest))

CopyStep == CopyBegin \/ CopyDone \/ (\E f \in listed, v \in Version : CopyFile(f, v))

Trouble == Mismatch \/ RollBack \/ RollBackFails \/ Fails \/ CopyFails \/ Crash

Next == \/ \E v \in Version : Boot(v) \/ Again(v)
        \/ EnsureStep \/ CopyStep \/ Trouble

Spec == Init /\ [][Next]_vars

(* systemd restarts the daemon, and Ensure goes on *)
FairSpec ==
    /\ Spec
    /\ WF_vars(\E v \in Version : Boot(v))
    /\ WF_vars(EnsureStep)

-----------------------------------------------------------------------------
(* Properties *)

(* At every moment, whatever a crash cut short, the template is missing or *)
(* has exactly the files of one version and that version's marker: what    *)
(* templateMatches takes on trust.                                         *)
TemplateIsWhole == template # {} => IsWhole(template)

(* A daemon that starts slots has the whole template of its version.       *)
ReadyIsWanted == pc = "ready" => Whole(template, want)

(* A slot is made of one whole version, the one the daemon wants, unless   *)
(* Ensure was called beside the copy: the daemon does not.                 *)
SlotIsWanted == copy = "done" /\ ~beside => Whole(slot, want)

(* Once there is a whole tree, there always is one: as the template, set   *)
(* aside, or left for the operator by a crash or a failed rollback.        *)
SomeTreeWhole == \E tree \in {template, aside} \cup leftovers : IsWhole(tree)
TreeSurvives == [][SomeTreeWhole => SomeTreeWhole']_vars

(* An Ensure that gives up leaves the template as it found it, unless the  *)
(* rollback itself failed: no step but the installation of the new tree,   *)
(* or a crash or a failed rollback in the middle of the two renames,       *)
(* changes which tree is installed.                                        *)
Installed == IF pc = "moved" /\ template = {} THEN aside ELSE template
ErrorKeepsTemplate ==
    [][Installed' # Installed => pc = "moved" /\ (Install \/ RollBackFails \/ Crash)]_vars

(* Whatever crashes and errors have left in the directories, an Ensure     *)
(* that meets no more trouble gets the daemon ready.                       *)
Calm == ~(Mismatch \/ RollBack \/ RollBackFails \/ Fails \/ Crash)
GoodDownloads == <>[](pc = "verify" /\ attempt = 1 => cache[want] = "good")
Recovers == <>[][Calm]_vars /\ GoodDownloads => []<>(pc = "ready")
=============================================================================
