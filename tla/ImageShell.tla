----------------------------- MODULE ImageShell -----------------------------
(***************************************************************************)
(* The handlers of ImageService (crates/lightr-cri-shell/src/image.rs).  A *)
(* client is shown names that are not the reference an image was pulled    *)
(* by: its id, as the digest too, and its tag, ":latest" if the reference  *)
(* had none.  The backend is asked by reference only; its calls are one    *)
(* step each here, their interleavings are in ImageStore.                  *)
(***************************************************************************)
EXTENDS Integers, FiniteSets, FiniteSetsExt

CONSTANTS
  Refs,      \* references that may be pulled: a path, and a tag or ""
  IdOf,      \* reference -> id of the image, from its hash
  SizeOf     \* reference -> size

VARIABLES
  im_pulled, \* the references of the images there are
  im_busy,   \* those that a container that has not exited was made of
  im_answer  \* the last answer

imvars == <<im_pulled, im_busy, im_answer>>

Tagged(r) == IF r[2] = "" THEN <<r[1], "latest">> ELSE r

\* Every name a client may know, no name, and one with white space.
NoName == <<"", "">>
Blank == <<"a b", "">>
Names == Refs \cup {IdOf[r] : r \in Refs} \cup {Tagged(r) : r \in Refs} \cup {NoName, Blank}

\* record_to_proto.
Shown(r) == [id |-> IdOf[r], tag |-> Tagged(r), digest |-> IdOf[r], size |-> SizeOf[r]]

Init == im_pulled = {} /\ im_busy \in SUBSET Refs /\ im_answer = [op |-> "none"]

Answer(op, name, code, images) ==
  im_answer' = [op |-> op, name |-> name, code |-> code, images |-> images]

PullImage(name) ==
  \/ /\ name \in {NoName, Blank} /\ Answer("pull", name, "invalid_argument", {})
     /\ UNCHANGED <<im_pulled, im_busy>>
  \/ /\ name \in Refs /\ Answer("pull", name, "ok", {})
     /\ im_pulled' = im_pulled \cup {name} /\ UNCHANGED im_busy
  \/ /\ name \in Refs /\ Answer("pull", name, "internal", {})  \* the file cannot be written
     /\ UNCHANGED <<im_pulled, im_busy>>

ImageStatus(name) ==
  /\ Answer("status", name, "ok", {Shown(r) : r \in {name} \cap im_pulled})
  /\ UNCHANGED <<im_pulled, im_busy>>

Passes(r, name) == name \in {NoName, r, IdOf[r], Tagged(r)}
ListImages(name) ==
  /\ Answer("list", name, "ok", {Shown(r) : r \in {q \in im_pulled : Passes(q, name)}})
  /\ UNCHANGED <<im_pulled, im_busy>>

RemoveImage(name) ==
  \/ /\ name \in im_pulled \cap im_busy
     /\ Answer("remove", name, "failed_precondition", {}) /\ UNCHANGED <<im_pulled, im_busy>>
  \/ /\ name \notin im_pulled \cap im_busy
     /\ Answer("remove", name, "ok", {})
     /\ im_pulled' = im_pulled \ {name} /\ UNCHANGED im_busy

ImageFsInfo ==
  /\ im_answer' = [op |-> "fs", inodes |-> Cardinality(im_pulled),
                   used |-> MapThenSumSet(LAMBDA r : SizeOf[r], im_pulled)]
  /\ UNCHANGED <<im_pulled, im_busy>>

\* Containers are made, exit and go.
ContainersMove == im_busy' \in SUBSET Refs /\ UNCHANGED <<im_pulled, im_answer>>

Next ==
  \/ \E name \in Names : PullImage(name) \/ ImageStatus(name) \/ ListImages(name) \/ RemoveImage(name)
  \/ ImageFsInfo \/ ContainersMove

Spec == Init /\ [][Next]_imvars
-----------------------------------------------------------------------------
\* By whichever of its names an image is listed, it is found by it, and so is no other
\* that does not share the name: two references may have one tag.  A removal goes by the
\* reference alone: answered Ok for one, the list is without that image and not in use it was;
\* for any other name of an image Ok is the answer too, and every image stays.  What the images
\* are said to use is what the list adds up to.
AnswersAreTrue ==
  [][LET a == im_answer'
         listed == {Shown(r) : r \in im_pulled'} IN
     a # im_answer =>
       /\ a.op = "list" =>
            a.images = {i \in listed : \/ a.name \in {NoName, i.id, i.tag, i.digest}
                                       \/ a.name \in Refs /\ i = Shown(a.name)}
       /\ a.op = "remove" /\ a.code = "ok" =>
            IF a.name \in Refs
            THEN /\ listed = {Shown(r) : r \in im_pulled} \ {Shown(a.name)}
                 /\ a.name \notin im_pulled \cap im_busy
            ELSE listed = {Shown(r) : r \in im_pulled}
       /\ a.op = "fs" => /\ a.inodes = Cardinality(listed)
                         /\ a.used = MapThenSumSet(LAMBDA i : i.size, listed)]_imvars
=============================================================================
