------------------------------- MODULE Bundles --------------------------------
(***************************************************************************)
(* Importing an evidence bundle (bundles.py import_bundle, cli: `ar        *)
(* evidence import`).                                                      *)
(*                                                                         *)
(* The archive is validated and unpacked outside the domain; under a lock  *)
(* of its own the tree is copied beside the address its manifest hashes to *)
(* and renamed there.  An import may die anywhere, people may remove a     *)
(* lock they take for left behind, and change or remove what was imported. *)
(* One address is modelled: two of different content never share one.      *)
(***************************************************************************)
EXTENDS Naturals, FiniteSets

CONSTANTS
    Files,          \* of the bundle, its manifest among them
    Importers,
    MaxTouched,     \* bound: changes people make to what is at the address
    Unheld, Idle

VARIABLES
    target,     \* the files at the address, Files when whole, {} when nothing is there
    touched,    \* changes by people; spoiled, that the last left other bytes
    spoiled,
    lock,       \* who holds it, or Unheld
    job         \* by importer: [at, copied], or Idle

bundleVars == <<target, touched, spoiled, lock, job>>

Phases == {"wait", "look", "copy", "publish", "clean", "release", "done", "refused"}

BundlesTypeOK ==
    /\ target \subseteq Files /\ touched \in 0..MaxTouched /\ spoiled \in BOOLEAN
    /\ lock \in Importers \union {Unheld}
    /\ \A n \in Importers : job[n] # Idle => job[n].at \in Phases /\ job[n].copied \subseteq Files

BundlesInit ==
    /\ target = {} /\ touched = 0 /\ spoiled = FALSE /\ lock = Unheld
    /\ job = [n \in Importers |-> Idle]

-----------------------------------------------------------------------------
At(n, phase) == job[n] # Idle /\ job[n].at = phase

Become(n, phase) == job' = [job EXCEPT ![n] = [@ EXCEPT !.at = phase]]

Staged == [at |-> "wait", copied |-> {}]

(* _inspect(): an archive that is not what its manifest says is refused    *)
(* before anything of the domain is touched.                               *)
Stage(n) ==
    /\ job[n] = Idle
    /\ \E answer \in {Staged, [Staged EXCEPT !.at = "refused"]} : job' = [job EXCEPT ![n] = answer]
    /\ UNCHANGED <<target, touched, spoiled, lock>>

Acquire(n) ==
    /\ At(n, "wait") /\ lock = Unheld
    /\ lock' = n /\ Become(n, "look") /\ UNCHANGED <<target, touched, spoiled>>

(* The lock is never stolen (stale_after is infinite): refused after 30 s, *)
(* though its holder is long dead, until somebody removes it.              *)
GiveUp(n) ==
    /\ At(n, "wait") /\ lock # Unheld
    /\ Become(n, "refused")
    /\ UNCHANGED <<target, touched, spoiled, lock>>

(* What is at the address is compared, all of it: _same_tree().            *)
Same == target = Files /\ ~spoiled

Look(n) ==
    /\ At(n, "look")
    /\ Become(n, IF target = {} THEN "copy" ELSE IF Same THEN "release" ELSE "refused")
    /\ lock' = IF target # {} /\ ~Same /\ lock = n THEN Unheld ELSE lock
    /\ UNCHANGED <<target, touched, spoiled>>

(* Fault: file by file, straight to the address.                           *)
CopyThere(n, f) ==
    /\ At(n, "copy") /\ f \notin job[n].copied
    /\ job' = [job EXCEPT ![n].copied = @ \union {f}]
    /\ target' = target \union {f} /\ UNCHANGED <<touched, spoiled, lock>>

(* shutil.copytree(), into a directory of its own.                         *)
Copy(n, f) ==
    /\ At(n, "copy") /\ f \notin job[n].copied
    /\ job' = [job EXCEPT ![n].copied = @ \union {f}]
    /\ UNCHANGED <<target, touched, spoiled, lock>>

Copied(n) ==
    /\ At(n, "copy") /\ job[n].copied = Files
    /\ Become(n, IF target = {} THEN "publish" ELSE "clean")
    /\ UNCHANGED <<target, touched, spoiled, lock>>

(* os.rename(): refused where a directory with files has come in between.  *)
Publish(n) ==
    /\ At(n, "publish")
    /\ IF target = {}
       THEN target' = job[n].copied /\ spoiled' = FALSE /\ Become(n, "release")
       ELSE UNCHANGED <<target, spoiled>> /\ Become(n, "clean")
    /\ UNCHANGED <<touched, lock>>

(* A collision: the copy is removed, the lock released, the import refused.*)
Clean(n) ==
    /\ At(n, "clean") /\ Become(n, "refused") /\ lock' = IF lock = n THEN Unheld ELSE lock
    /\ UNCHANGED <<target, touched, spoiled>>

(* Lock.release(): not another's; that raises, and the import has been.    *)
Release(n) ==
    /\ At(n, "release")
    /\ Become(n, IF lock \in {n, Unheld} THEN "done" ELSE "refused")
    /\ lock' = IF lock = n THEN Unheld ELSE lock
    /\ UNCHANGED <<target, touched, spoiled>>

(* The end, or a death; one while copying leaves its own directory behind. *)
Leave(n) ==
    /\ job[n] # Idle /\ job' = [job EXCEPT ![n] = Idle]
    /\ UNCHANGED <<target, touched, spoiled, lock>>

(* People.                                                                 *)
RemoveLock ==
    /\ lock # Unheld /\ lock' = Unheld /\ UNCHANGED <<target, touched, spoiled, job>>

Touch ==
    /\ target # {} /\ touched < MaxTouched /\ touched' = touched + 1
    /\ \/ target' = {} /\ spoiled' = FALSE
       \/ target' = target /\ spoiled' = TRUE
    /\ UNCHANGED <<lock, job>>

BundlesNext ==
    \/ RemoveLock \/ Touch
    \/ \E n \in Importers :
          \/ Stage(n) \/ Acquire(n) \/ GiveUp(n) \/ Look(n) \/ Copied(n) \/ Publish(n)
          \/ Clean(n) \/ Release(n) \/ Leave(n)
          \/ \E f \in Files : Copy(n, f)

BundlesSpec == BundlesInit /\ [][BundlesNext]_bundleVars

-----------------------------------------------------------------------------
(* Whoever dies, and whoever removes a lock that was in use: what is at    *)
(* the address is the whole bundle or nothing, unless people changed it,   *)
(* and an import that said it succeeded left it there (bundles.py          *)
(* import_bundle: "Existing content at that address must match the entire  *)
(* tree exactly"; README.md, 1263: atomically, idempotently).              *)
ImportedWhole ==
    /\ ~spoiled => target \in {{}, Files}
    /\ touched = 0 => \A n \in Importers : At(n, "done") => target = Files
===============================================================================
