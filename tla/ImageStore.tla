------------------------------ MODULE ImageStore ------------------------------
(***************************************************************************)
(* The image plane of the fake backend (crates/lightr-cri-fake/src/lib.rs): *)
(* image records in the cache and on disk, pull_image, remove_image, and   *)
(* the containers that refer to an image.  Sandboxes, pids and the disk    *)
(* records of containers do not matter here: a container is what           *)
(* remove_image sees of it in the cache.                                   *)
(***************************************************************************)
EXTENDS Integers, FiniteSets

CONSTANTS
  Images,         \* one per ref that is ever pulled
  Containers,     \* container ids
  Threads,        \* the blocking threads that serve CRI calls
  None,           \* no image
  MaxCrashes,     \* bound on kill -9 of the server
  MaxIoErrors     \* bound on writes and unlinks that fail

\* An image goes by the ref it was pulled by and by the digest pull_image answers.
Names == [image : Images, form : {"ref", "digest"}]

ASSUME StoreConstantsOK ==
  /\ None \notin Names
  /\ MaxCrashes \in Nat /\ MaxIoErrors \in Nat

VARIABLES
  up,             \* the server runs and `open` has returned
  images,         \* the keys of Cache.images
  diskImages,     \* the records under images/
  ct,             \* Cache.containers: id -> state and config.image_ref
  pc, fr,         \* per blocking thread: where it is, and the name it was given
  gone,           \* images whose removal was answered Ok, not pulled since (history)
  stuck,          \* images whose file an unlink failed to take away       (history)
  crashes, ioErrors

vars == <<up, images, diskImages, ct, pc, fr, gone, stuck, crashes, ioErrors>>

-----------------------------------------------------------------------------
Labels == {"idle", "pull_write", "pull_insert", "ri_find", "ri_check", "ri_drop", "ri_unlink"}

Records == [state : {"absent", "Created", "Running", "Exited"}, image : Names \cup {None}]
Absent  == [state |-> "absent", image |-> None]

RefName(i) == [image |-> i, form |-> "ref"]

Init ==
  /\ up = TRUE
  /\ images = {} /\ diskImages = {}
  /\ ct = [c \in Containers |-> Absent]
  /\ pc = [t \in Threads |-> "idle"]
  /\ fr = [t \in Threads |-> None]
  /\ gone = {} /\ stuck = {}
  /\ crashes = 0 /\ ioErrors = 0

\* Thread t, inside a call, goes on to label l.
Goto(t, l) == up /\ pc' = [pc EXCEPT ![t] = l]

-----------------------------------------------------------------------------
(* pull_image: the record is written, then cached.  A ref that is no ref is *)
(* refused before anything changes and is left out.                         *)

CallPull(t) ==
  /\ pc[t] = "idle" /\ Goto(t, "pull_write")
  /\ \E i \in Images : /\ fr' = [fr EXCEPT ![t] = RefName(i)]
                       /\ gone' = gone \ {i}
  /\ UNCHANGED <<up, images, diskImages, ct, stuck, crashes, ioErrors>>

IoError == ioErrors < MaxIoErrors /\ ioErrors' = ioErrors + 1

Bug_PullWrite(t) ==
  /\ pc[t] = "pull_write" /\ Goto(t, "pull_insert")
  /\ \/ IoError /\ UNCHANGED diskImages
     \/ diskImages' = diskImages \cup {fr[t].image} /\ UNCHANGED ioErrors
  /\ UNCHANGED <<up, images, ct, fr, gone, stuck, crashes>>

PullWrite(t) ==
  /\ pc[t] = "pull_write"
  /\ \/ IoError /\ Goto(t, "idle") /\ UNCHANGED diskImages
     \/ /\ Goto(t, "pull_insert") /\ diskImages' = diskImages \cup {fr[t].image}
        /\ UNCHANGED ioErrors
  /\ UNCHANGED <<up, images, ct, fr, gone, stuck, crashes>>

PullInsert(t) ==
  /\ pc[t] = "pull_insert" /\ Goto(t, "idle")
  /\ images' = images \cup {fr[t].image}
  /\ UNCHANGED <<up, diskImages, ct, fr, gone, stuck, crashes, ioErrors>>

-----------------------------------------------------------------------------
(* remove_image: three critical sections, then the unlink. *)

CallRemove(t) ==
  /\ pc[t] = "idle" /\ Goto(t, "ri_find")
  /\ \E name \in Names : fr' = [fr EXCEPT ![t] = name]
  /\ UNCHANGED <<up, images, diskImages, ct, gone, stuck, crashes, ioErrors>>

\* The record whose ref_name is the name given: a digest finds none.
Finds(name) == name.form = "ref" /\ name.image \in images

\* Not found is Ok.
RemoveFind(t) ==
  /\ pc[t] = "ri_find"
  /\ \/ Finds(fr[t]) /\ Goto(t, "ri_check") /\ UNCHANGED gone
     \/ /\ ~Finds(fr[t]) /\ Goto(t, "idle")
        /\ gone' = IF fr[t].form = "ref" THEN gone \cup {fr[t].image} ELSE gone
  /\ UNCHANGED <<up, images, diskImages, ct, fr, stuck, crashes, ioErrors>>

Bug_InUse(name) == \E c \in Containers : ct[c].image = name /\ ct[c].state = "Running"
InUse(name) == \E c \in Containers : ct[c].image = name /\ ct[c].state \in {"Created", "Running"}

RemoveCheck(t) ==
  /\ pc[t] = "ri_check"
  /\ Goto(t, IF InUse(fr[t]) THEN "idle" ELSE "ri_drop")
  /\ UNCHANGED <<up, images, diskImages, ct, fr, gone, stuck, crashes, ioErrors>>

RemoveDrop(t) ==
  /\ pc[t] = "ri_drop" /\ Goto(t, "ri_unlink")
  /\ images' = images \ {fr[t].image}
  /\ UNCHANGED <<up, diskImages, ct, fr, gone, stuck, crashes, ioErrors>>

Bug_Unlinked(i) == diskImages
Unlinked(i) == diskImages \ {i}

\* The result of remove_file is dropped: Ok either way.
RemoveUnlink(t) ==
  /\ pc[t] = "ri_unlink" /\ Goto(t, "idle")
  /\ \/ /\ diskImages' = Unlinked(fr[t].image) /\ stuck' = stuck \ {fr[t].image}
        /\ UNCHANGED ioErrors
     \/ IoError /\ stuck' = stuck \cup {fr[t].image} /\ UNCHANGED diskImages
  /\ gone' = gone \cup {fr[t].image}
  /\ UNCHANGED <<up, images, ct, fr, crashes>>

-----------------------------------------------------------------------------
(* Containers, as far as remove_image can see them. *)

\* create_container looks at no image: any name will do, pulled or not.
CreateContainer(t) ==
  /\ pc[t] = "idle" /\ up
  /\ \E c \in Containers, name \in Names :
       ct[c] = Absent /\ ct' = [ct EXCEPT ![c] = [state |-> "Created", image |-> name]]
  /\ UNCHANGED <<up, images, diskImages, pc, fr, gone, stuck, crashes, ioErrors>>

StartContainer(t) ==
  /\ pc[t] = "idle" /\ up
  /\ \E c \in Containers :
       ct[c].state = "Created" /\ ct' = [ct EXCEPT ![c].state = "Running"]
  /\ UNCHANGED <<up, images, diskImages, pc, fr, gone, stuck, crashes, ioErrors>>

RemoveContainer(t) ==
  /\ pc[t] = "idle" /\ up
  /\ \E c \in Containers :
       ct[c].state # "absent" /\ ct' = [ct EXCEPT ![c] = Absent]
  /\ UNCHANGED <<up, images, diskImages, pc, fr, gone, stuck, crashes, ioErrors>>

\* The reaper records an exit.
ContainerExits ==
  /\ up
  /\ \E c \in Containers :
       ct[c].state = "Running" /\ ct' = [ct EXCEPT ![c].state = "Exited"]
  /\ UNCHANGED <<up, images, diskImages, pc, fr, gone, stuck, crashes, ioErrors>>

-----------------------------------------------------------------------------
Crash ==
  /\ up /\ up' = FALSE /\ crashes < MaxCrashes /\ crashes' = crashes + 1
  /\ images' = {}
  /\ pc' = [t \in Threads |-> "idle"] /\ fr' = [t \in Threads |-> None]
  /\ UNCHANGED <<diskImages, ct, gone, stuck, ioErrors>>

\* `open`: the images as they are on disk; a Running container whose process is gone has
\* exited.
Opened ==
  /\ ~up /\ up' = TRUE
  /\ images' = diskImages
  /\ \E lost \in SUBSET {c \in Containers : ct[c].state = "Running"} :
       ct' = [c \in Containers |-> IF c \in lost THEN [ct[c] EXCEPT !.state = "Exited"] ELSE ct[c]]
  /\ UNCHANGED <<diskImages, pc, fr, gone, stuck, crashes, ioErrors>>

ThreadStep(t) ==
  \/ CallPull(t) \/ PullWrite(t) \/ PullInsert(t)
  \/ CallRemove(t) \/ RemoveFind(t) \/ RemoveCheck(t) \/ RemoveDrop(t) \/ RemoveUnlink(t)
  \/ CreateContainer(t) \/ StartContainer(t) \/ RemoveContainer(t)

Next == (\E t \in Threads : ThreadStep(t)) \/ ContainerExits \/ Crash \/ Opened

Spec == Init /\ [][Next]_vars

-----------------------------------------------------------------------------
(* Properties *)

\* Every variable holds what the code can build.
TypeOK ==
  /\ up \in BOOLEAN
  /\ images \subseteq Images /\ diskImages \subseteq Images /\ gone \subseteq Images
  /\ stuck \subseteq Images
  /\ ct \in [Containers -> Records]
  /\ pc \in [Threads -> Labels]
  /\ fr \in [Threads -> Names \cup {None}]
  /\ crashes \in Nat /\ ioErrors \in Nat

\* What image_status and list_images show survives a kill -9.
ListedIsDurable == images \subseteq diskImages

\* A removal answered Ok survives a kill -9 of the server, unless the unlink itself failed.
RemovedIsGone == gone \cap diskImages \subseteq stuck

Users(name) == {c \in Containers : ct[c].image = name /\ ct[c].state \in {"Created", "Running"}}

\* No removal takes an image from under a live container that names it by its ref.
InUseByRefStays ==
  [][\A i \in Images : i \in images /\ i \notin images' /\ up' => Users(RefName(i)) = {}]_vars

=============================================================================
