--------------------------- MODULE ImageStoreProofs ---------------------------
(***************************************************************************)
(* The image store keeps its word as long as calls come one at a time, for *)
(* any images, containers, crashes and file errors.                        *)
(***************************************************************************)
EXTENDS ImageStore, TLAPS

(* Types *)

\* A thread past the entry of its call holds a name; only a ref gets past `ri_find`, and
\* only a ref is pulled.
Named ==
  \A t \in Threads :
    /\ pc[t] # "idle" => fr[t] \in Names
    /\ pc[t] \in {"pull_write", "pull_insert", "ri_check", "ri_drop", "ri_unlink"} =>
         fr[t].form = "ref"

Typed == TypeOK /\ Named

LEMMA NameTypes ==
  /\ \A i \in Images : RefName(i) \in Names /\ RefName(i).form = "ref" /\ RefName(i).image = i
  /\ \A name \in Names : name.image \in Images
  /\ \A name \in Names : name.form = "ref" => name = RefName(name.image)
<1>1. \A i \in Images : RefName(i) \in Names /\ RefName(i).form = "ref" /\ RefName(i).image = i
  BY DEF RefName, Names
<1>2. \A name \in Names : name.image \in Images
  BY DEF Names
<1>3. ASSUME NEW name \in Names, name.form = "ref" PROVE name = RefName(name.image)
  BY <1>3 DEF RefName, Names
<1>4. QED
  BY <1>1, <1>2, <1>3

LEMMA RecordTypes ==
  /\ Absent \in Records
  /\ \A name \in Names : [state |-> "Created", image |-> name] \in Records
  /\ \A r \in Records : /\ [r EXCEPT !.state = "Running"] \in Records
                        /\ [r EXCEPT !.state = "Exited"] \in Records
  BY DEF Absent, Records

LEMMA TypedInit == Init => Typed
  BY RecordTypes, StoreConstantsOK DEF Init, Typed, TypeOK, Named, Labels

\* What a call does to its own thread keeps the types, if it goes to a label with the
\* name that label needs.
LEMMA TypedCall ==
  ASSUME Typed, NEW t \in Threads, NEW l \in Labels, Goto(t, l),
         NEW name, fr' = [fr EXCEPT ![t] = name], name \in Names \cup {None},
         l # "idle" => name \in Names,
         l \in {"pull_write", "pull_insert", "ri_check", "ri_drop", "ri_unlink"} =>
           name.form = "ref"
  PROVE  /\ pc' \in [Threads -> Labels] /\ fr' \in [Threads -> Names \cup {None}]
         /\ Named'
<1>1. /\ pc' \in [Threads -> Labels] /\ fr' \in [Threads -> Names \cup {None}]
      /\ pc'[t] = l /\ fr'[t] = name
      /\ \A u \in Threads : u # t => pc'[u] = pc[u] /\ fr'[u] = fr[u]
  BY DEF Goto, Typed, TypeOK
<1>2. Named'
  BY <1>1 DEF Typed, Named
<1>3. QED
  BY <1>1, <1>2

\* A step that leaves the name as it is.
LEMMA TypedGoto ==
  ASSUME Typed, NEW t \in Threads, NEW l \in Labels, Goto(t, l), fr' = fr,
         l # "idle" => fr[t] \in Names,
         l \in {"pull_write", "pull_insert", "ri_check", "ri_drop", "ri_unlink"} =>
           fr[t].form = "ref"
  PROVE  /\ pc' \in [Threads -> Labels] /\ fr' \in [Threads -> Names \cup {None}]
         /\ Named'
<1>1. fr' = [fr EXCEPT ![t] = fr[t]] /\ fr[t] \in Names \cup {None}
  BY DEF Typed, TypeOK
<1>2. QED
  BY <1>1, TypedCall

LEMMA TypedThread ==
  ASSUME Typed, NEW t \in Threads, ThreadStep(t)
  PROVE  Typed'
<1> USE DEF Typed
<1>1. CASE CallPull(t)
  <2>1. PICK i \in Images : fr' = [fr EXCEPT ![t] = RefName(i)] /\ gone' = gone \ {i}
    BY <1>1 DEF CallPull
  <2>2. Goto(t, "pull_write") /\ "pull_write" \in Labels
    BY <1>1 DEF CallPull, Labels
  <2>3. /\ pc' \in [Threads -> Labels] /\ fr' \in [Threads -> Names \cup {None}]
        /\ Named'
    BY <2>1, <2>2, NameTypes, TypedCall
  <2>4. QED
    BY <1>1, <2>1, <2>3 DEF CallPull, TypeOK
<1>2. CASE PullWrite(t)
  <2>1. fr[t] \in Names /\ fr[t].form = "ref" /\ fr[t].image \in Images
    BY <1>2, NameTypes DEF PullWrite, Named
  <2>2. CASE Goto(t, "idle")
    <3>1. pc' \in [Threads -> Labels] /\ fr' \in [Threads -> Names \cup {None}] /\ Named'
      BY <1>2, <2>1, <2>2, TypedGoto DEF PullWrite, Labels
    <3>2. QED
      BY <1>2, <2>1, <3>1, StoreConstantsOK DEF PullWrite, IoError, TypeOK
  <2>3. CASE Goto(t, "pull_insert")
    <3>1. pc' \in [Threads -> Labels] /\ fr' \in [Threads -> Names \cup {None}] /\ Named'
      BY <1>2, <2>1, <2>3, TypedGoto DEF PullWrite, Labels
    <3>2. QED
      BY <1>2, <2>1, <3>1, StoreConstantsOK DEF PullWrite, IoError, TypeOK
  <2>4. QED
    BY <1>2, <2>2, <2>3 DEF PullWrite
<1>3. CASE PullInsert(t)
  <2>1. fr[t] \in Names /\ fr[t].form = "ref" /\ fr[t].image \in Images
    BY <1>3, NameTypes DEF PullInsert, Named
  <2>2. pc' \in [Threads -> Labels] /\ fr' \in [Threads -> Names \cup {None}] /\ Named'
    BY <1>3, <2>1, TypedGoto DEF PullInsert, Labels
  <2>3. QED
    BY <1>3, <2>1, <2>2 DEF PullInsert, TypeOK
<1>4. CASE CallRemove(t)
  <2>1. PICK name \in Names : fr' = [fr EXCEPT ![t] = name]
    BY <1>4 DEF CallRemove
  <2>2. pc' \in [Threads -> Labels] /\ fr' \in [Threads -> Names \cup {None}] /\ Named'
    BY <1>4, <2>1, TypedCall DEF CallRemove, Labels
  <2>3. QED
    BY <1>4, <2>2 DEF CallRemove, TypeOK
<1>5. CASE RemoveFind(t)
  <2>1. fr[t] \in Names /\ fr[t].image \in Images
    BY <1>5, NameTypes DEF RemoveFind, Named
  <2>2. CASE Finds(fr[t]) /\ Goto(t, "ri_check") /\ UNCHANGED gone
    <3>1. pc' \in [Threads -> Labels] /\ fr' \in [Threads -> Names \cup {None}] /\ Named'
      BY <1>5, <2>1, <2>2, TypedGoto DEF RemoveFind, Finds, Labels
    <3>2. QED
      BY <1>5, <2>2, <3>1 DEF RemoveFind, TypeOK
  <2>3. CASE /\ ~Finds(fr[t]) /\ Goto(t, "idle")
             /\ gone' = IF fr[t].form = "ref" THEN gone \cup {fr[t].image} ELSE gone
    <3>1. pc' \in [Threads -> Labels] /\ fr' \in [Threads -> Names \cup {None}] /\ Named'
      BY <1>5, <2>1, <2>3, TypedGoto DEF RemoveFind, Labels
    <3>2. QED
      BY <1>5, <2>1, <2>3, <3>1 DEF RemoveFind, TypeOK
  <2>4. QED
    BY <1>5, <2>2, <2>3 DEF RemoveFind
<1>6. CASE RemoveCheck(t)
  <2>1. fr[t] \in Names /\ fr[t].form = "ref"
    BY <1>6 DEF RemoveCheck, Named
  <2>2. PICK l \in {"idle", "ri_drop"} : Goto(t, l)
    BY <1>6 DEF RemoveCheck
  <2>3. pc' \in [Threads -> Labels] /\ fr' \in [Threads -> Names \cup {None}] /\ Named'
    BY <1>6, <2>1, <2>2, TypedGoto DEF RemoveCheck, Labels
  <2>4. QED
    BY <1>6, <2>3 DEF RemoveCheck, TypeOK
<1>7. CASE RemoveDrop(t)
  <2>1. fr[t] \in Names /\ fr[t].form = "ref"
    BY <1>7 DEF RemoveDrop, Named
  <2>2. pc' \in [Threads -> Labels] /\ fr' \in [Threads -> Names \cup {None}] /\ Named'
    BY <1>7, <2>1, TypedGoto DEF RemoveDrop, Labels
  <2>3. QED
    BY <1>7, <2>2 DEF RemoveDrop, TypeOK
<1>8. CASE RemoveUnlink(t)
  <2>1. fr[t] \in Names /\ fr[t].form = "ref" /\ fr[t].image \in Images
    BY <1>8, NameTypes DEF RemoveUnlink, Named
  <2>2. pc' \in [Threads -> Labels] /\ fr' \in [Threads -> Names \cup {None}] /\ Named'
    BY <1>8, <2>1, TypedGoto DEF RemoveUnlink, Labels
  <2>3. QED
    BY <1>8, <2>1, <2>2, StoreConstantsOK DEF RemoveUnlink, Unlinked, IoError, TypeOK
<1>9. CASE CreateContainer(t) \/ StartContainer(t) \/ RemoveContainer(t)
  <2>1. PICK c \in Containers, r \in Records : ct' = [ct EXCEPT ![c] = r]
    <3>1. CASE CreateContainer(t)
      BY <3>1, RecordTypes DEF CreateContainer
    <3>2. CASE StartContainer(t)
      <4>1. PICK c \in Containers : ct' = [ct EXCEPT ![c].state = "Running"]
        BY <3>2 DEF StartContainer
      <4>2. ct' = [ct EXCEPT ![c] = [ct[c] EXCEPT !.state = "Running"]]
        BY <4>1
      <4>3. ct[c] \in Records
        BY DEF TypeOK
      <4>4. QED
        BY <4>2, <4>3, RecordTypes
    <3>3. CASE RemoveContainer(t)
      BY <3>3, RecordTypes DEF RemoveContainer
    <3>4. QED
      BY <1>9, <3>1, <3>2, <3>3
  <2>2. ct' \in [Containers -> Records]
    BY <2>1 DEF TypeOK
  <2>3. QED
    BY <1>9, <2>2 DEF CreateContainer, StartContainer, RemoveContainer, TypeOK, Named
<1>10. QED
  BY <1>1, <1>2, <1>3, <1>4, <1>5, <1>6, <1>7, <1>8, <1>9 DEF ThreadStep

LEMMA TypedStep == Typed /\ [Next]_vars => Typed'
<1> SUFFICES ASSUME Typed, [Next]_vars PROVE Typed'
  OBVIOUS
<1>1. CASE \E t \in Threads : ThreadStep(t)
  BY <1>1, TypedThread
<1>2. CASE ContainerExits
  <2>1. PICK c \in Containers : ct' = [ct EXCEPT ![c].state = "Exited"]
    BY <1>2 DEF ContainerExits
  <2>2. ct' = [ct EXCEPT ![c] = [ct[c] EXCEPT !.state = "Exited"]]
    BY <2>1
  <2>3. [ct[c] EXCEPT !.state = "Exited"] \in Records /\ ct \in [Containers -> Records]
    BY RecordTypes DEF Typed, TypeOK
  <2>4. ct' \in [Containers -> Records]
    BY <2>2, <2>3
  <2>5. QED
    BY <1>2, <2>4 DEF ContainerExits, Typed, TypeOK, Named
<1>3. CASE Crash
  <2>1. /\ pc' \in [Threads -> Labels] /\ fr' \in [Threads -> Names \cup {None}]
        /\ \A t \in Threads : pc'[t] = "idle"
    BY <1>3 DEF Crash, Labels
  <2>2. Named'
    BY <2>1 DEF Named
  <2>3. crashes' \in Nat
    BY <1>3 DEF Crash, Typed, TypeOK
  <2>4. QED
    BY <1>3, <2>1, <2>2, <2>3 DEF Crash, Typed, TypeOK
<1>4. CASE Opened
  <2>1. ct' \in [Containers -> Records]
    BY <1>4, RecordTypes DEF Opened, Typed, TypeOK
  <2>2. QED
    BY <1>4, <2>1 DEF Opened, Typed, TypeOK, Named
<1>5. CASE UNCHANGED vars
  BY <1>5 DEF vars, Typed, TypeOK, Named
<1>6. QED
  BY <1>1, <1>2, <1>3, <1>4, <1>5 DEF Next

\* Every variable of the image store holds what the code can build.
THEOREM StoreTyped == Spec => []TypeOK
<1>1. Typed => TypeOK
  BY DEF Typed
<1>2. QED
  BY <1>1, TypedInit, TypedStep, PTL DEF Spec

-----------------------------------------------------------------------------
(* One caller at a time.  The set of threads is {t}: what t found out on its *)
(* way still holds when it acts on it.                                       *)

\* Where t stands, the record is written, the record is dropped, or nobody uses the image.
Alone(t) ==
  /\ ListedIsDurable
  /\ ~up => pc[t] = "idle"
  /\ pc[t] = "pull_insert" => fr[t].image \in diskImages
  /\ pc[t] = "ri_drop" => Users(fr[t]) = {}
  /\ pc[t] = "ri_unlink" => fr[t].image \notin images

\* Of the program's other steps only an exit may come in between: it makes users fewer.
LEMMA AloneExit ==
  ASSUME NEW t, Threads = {t}, Typed, Alone(t), ContainerExits
  PROVE  Alone(t)'
<1>1. PICK c \in Containers : ct' = [ct EXCEPT ![c].state = "Exited"]
  BY DEF ContainerExits
<1>2. ct \in [Containers -> Records]
  BY DEF Typed, TypeOK
<1>3. ct'[c].state = "Exited" /\ \A d \in Containers : d # c => ct'[d] = ct[d]
  BY <1>1, <1>2 DEF Records
<1>4. fr' = fr /\ Users(fr[t])' \subseteq Users(fr[t])
  <2>1. fr' = fr
    BY DEF ContainerExits
  <2>2. \A d \in Users(fr[t])' : d # c
    BY <1>3, <2>1 DEF Users
  <2>3. QED
    BY <1>3, <2>1, <2>2 DEF Users
<1>5. QED
  BY <1>4 DEF ContainerExits, Alone, ListedIsDurable

LEMMA AloneThread ==
  ASSUME NEW t, Threads = {t}, Typed, Alone(t), ThreadStep(t)
  PROVE  Alone(t)'
<1>0. pc \in [Threads -> Labels] /\ t \in Threads
  BY DEF Typed, TypeOK
<1> USE DEF Alone, ListedIsDurable, Goto
<1>1. CASE CallPull(t) \/ CallRemove(t)
  BY <1>0, <1>1 DEF CallPull, CallRemove
<1>2. CASE PullWrite(t)
  BY <1>0, <1>2 DEF PullWrite
<1>3. CASE PullInsert(t)
  BY <1>0, <1>3 DEF PullInsert
<1>4. CASE RemoveFind(t)
  BY <1>0, <1>4 DEF RemoveFind
<1>5. CASE RemoveCheck(t)
  <2>1. CASE InUse(fr[t])
    BY <1>0, <1>5, <2>1 DEF RemoveCheck
  <2>2. CASE ~InUse(fr[t])
    <3>1. Users(fr[t]) = {}
      BY <2>2 DEF InUse, Users
    <3>2. Users(fr[t])' = Users(fr[t])
      BY <1>5 DEF RemoveCheck, Users
    <3>3. pc'[t] = "ri_drop" /\ UNCHANGED <<up, images, diskImages, fr>> /\ up
      BY <1>0, <1>5, <2>2 DEF RemoveCheck
    <3>4. Users(fr[t])' = {}
      BY <3>1, <3>2
    <3>5. QED
      BY <3>3, <3>4
  <2>3. QED
    BY <2>1, <2>2
<1>6. CASE RemoveDrop(t)
  BY <1>0, <1>6 DEF RemoveDrop
<1>7. CASE RemoveUnlink(t)
  BY <1>0, <1>7 DEF RemoveUnlink, Unlinked
<1>8. CASE CreateContainer(t) \/ StartContainer(t) \/ RemoveContainer(t)
  BY <1>8 DEF CreateContainer, StartContainer, RemoveContainer
<1>9. QED
  BY <1>1, <1>2, <1>3, <1>4, <1>5, <1>6, <1>7, <1>8 DEF ThreadStep

LEMMA AloneStep ==
  ASSUME NEW t, Threads = {t}
  PROVE  Typed /\ Alone(t) /\ [Next]_vars => Alone(t)'
<1> SUFFICES ASSUME Typed, Alone(t), [Next]_vars PROVE Alone(t)'
  OBVIOUS
<1>1. CASE \E u \in Threads : ThreadStep(u)
  BY <1>1, AloneThread
<1>2. CASE ContainerExits
  BY <1>2, AloneExit
<1>3. CASE Crash
  BY <1>3 DEF Crash, Alone, ListedIsDurable
<1>4. CASE Opened
  BY <1>4 DEF Opened, Alone, ListedIsDurable
<1>5. CASE UNCHANGED vars
  BY <1>5 DEF vars, Alone, ListedIsDurable, Users
<1>6. QED
  BY <1>1, <1>2, <1>3, <1>4, <1>5 DEF Next

\* Calls one at a time: what the image plane shows is on disk, whatever writes and unlinks
\* fail and whenever the server is killed.
THEOREM OneCallerDurable ==
  ASSUME NEW t, Threads = {t}
  PROVE  Spec => []ListedIsDurable
<1>1. Init => Alone(t)
  BY DEF Init, Alone, ListedIsDurable
<1>2. Alone(t) => ListedIsDurable
  BY DEF Alone
<1>3. QED
  BY <1>1, <1>2, AloneStep, TypedInit, TypedStep, PTL DEF Spec

\* Calls one at a time: remove_image never takes an image from under a live container that
\* names it by its ref.
THEOREM OneCallerInUse ==
  ASSUME NEW t, Threads = {t}
  PROVE  Spec => InUseByRefStays
<1> DEFINE Kept == \A i \in Images : i \in images /\ i \notin images' /\ up' => Users(RefName(i)) = {}
<1>1. Init => Alone(t)
  BY DEF Init, Alone, ListedIsDurable
<1>2. Typed /\ Alone(t) /\ [Next]_vars => [Kept]_vars
  <2> SUFFICES ASSUME Typed, Alone(t), [Next]_vars,
                      NEW i \in Images, i \in images, i \notin images', up'
               PROVE  Users(RefName(i)) = {}
    OBVIOUS
  <2>1. RemoveDrop(t)
    BY DEF Next, ThreadStep, vars, CallPull, PullWrite, PullInsert, CallRemove, RemoveFind,
           RemoveCheck, RemoveUnlink, CreateContainer, StartContainer, RemoveContainer,
           ContainerExits, Crash, Opened, Alone, ListedIsDurable
  <2>2. fr[t] = RefName(i)
    BY <2>1, NameTypes DEF RemoveDrop, Typed, Named
  <2>3. QED
    BY <2>1, <2>2 DEF RemoveDrop, Alone
<1>3. QED
  BY <1>1, <1>2, AloneStep, TypedInit, TypedStep, PTL DEF Spec, InUseByRefStays

-----------------------------------------------------------------------------
(* Removal.  A name that is not found is answered Ok, so whenever t looks one up, what is *)
(* on disk must be in the cache.                                                          *)

\* On disk but not in the cache are images of failed unlinks, and the one t is working on.
Exact(t) ==
  /\ ~up => pc[t] = "idle"
  /\ up => diskImages \subseteq images \cup stuck \cup
             (IF pc[t] \in {"pull_insert", "ri_unlink"} THEN {fr[t].image} ELSE {})
  /\ pc[t] \in {"pull_write", "pull_insert"} => fr[t].image \notin gone
  /\ RemovedIsGone

LEMMA ExactThread ==
  ASSUME NEW t, Threads = {t}, Typed, Exact(t), ThreadStep(t)
  PROVE  Exact(t)'
<1>0. pc \in [Threads -> Labels] /\ fr \in [Threads -> Names \cup {None}] /\ t \in Threads
  BY DEF Typed, TypeOK
<1> USE DEF Exact, RemovedIsGone, Goto
<1>1. CASE CallPull(t)
  <2>1. PICK i \in Images : fr' = [fr EXCEPT ![t] = RefName(i)] /\ gone' = gone \ {i}
    BY <1>1 DEF CallPull
  <2>2. fr'[t].image \notin gone'
    BY <1>0, <2>1, NameTypes
  <2>3. QED
    BY <1>0, <1>1, <2>1, <2>2 DEF CallPull
<1>2. CASE PullWrite(t)
  BY <1>0, <1>2 DEF PullWrite
<1>3. CASE PullInsert(t)
  BY <1>0, <1>3 DEF PullInsert
<1>4. CASE CallRemove(t)
  BY <1>0, <1>4 DEF CallRemove
<1>5. CASE RemoveFind(t)
  BY <1>0, <1>5 DEF RemoveFind, Finds
<1>6. CASE RemoveCheck(t)
  BY <1>0, <1>6 DEF RemoveCheck
<1>7. CASE RemoveDrop(t)
  BY <1>0, <1>7 DEF RemoveDrop
<1>8. CASE RemoveUnlink(t)
  BY <1>0, <1>8 DEF RemoveUnlink, Unlinked
<1>9. CASE CreateContainer(t) \/ StartContainer(t) \/ RemoveContainer(t)
  BY <1>9 DEF CreateContainer, StartContainer, RemoveContainer
<1>10. QED
  BY <1>1, <1>2, <1>3, <1>4, <1>5, <1>6, <1>7, <1>8, <1>9 DEF ThreadStep

LEMMA ExactStep ==
  ASSUME NEW t, Threads = {t}
  PROVE  Typed /\ Exact(t) /\ [Next]_vars => Exact(t)'
<1> SUFFICES ASSUME Typed, Exact(t), [Next]_vars PROVE Exact(t)'
  OBVIOUS
<1>1. CASE \E u \in Threads : ThreadStep(u)
  BY <1>1, ExactThread
<1>2. CASE ContainerExits
  BY <1>2 DEF ContainerExits, Exact, RemovedIsGone
<1>3. CASE Crash
  BY <1>3 DEF Crash, Exact, RemovedIsGone
<1>4. CASE Opened
  BY <1>4 DEF Opened, Exact, RemovedIsGone
<1>5. CASE UNCHANGED vars
  BY <1>5 DEF vars, Exact, RemovedIsGone
<1>6. QED
  BY <1>1, <1>2, <1>3, <1>4, <1>5 DEF Next

\* Calls one at a time: an image whose removal was answered Ok comes back by a restart only
\* if the unlink itself failed.
THEOREM OneCallerRemoves ==
  ASSUME NEW t, Threads = {t}
  PROVE  Spec => []RemovedIsGone
<1>1. Init => Exact(t)
  BY DEF Init, Exact, RemovedIsGone
<1>2. Exact(t) => RemovedIsGone
  BY DEF Exact
<1>3. QED
  BY <1>1, <1>2, ExactStep, TypedInit, TypedStep, PTL DEF Spec

=============================================================================
