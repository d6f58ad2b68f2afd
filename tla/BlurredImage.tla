----------------------------- MODULE BlurredImage -----------------------------
(***************************************************************************)
(* UIImageView+LBBlurredImage: each request renders a blurred picture on   *)
(* the concurrent global queue and posts a block to the main queue that    *)
(* sets the picture and calls the completion block.  FourViewController    *)
(* makes one request when it is created and one per click on a button,     *)
(* without waiting for the one before.                                     *)
(***************************************************************************)
EXTENDS Integers, Sequences

CONSTANTS
    MaxRequests,    \* bound: requests
    NoImage,        \* nil
    FilterMayLack,  \* a CIFilter may not exist
    RenderMayFail   \* createCGImage may return NULL

ASSUME BlurAssumption ==
    /\ MaxRequests \in Nat
    /\ NoImage \notin 1..MaxRequests
    /\ FilterMayLack \in BOOLEAN /\ RenderMayFail \in BOOLEAN

VARIABLES
    made,       \* number of requests made, and the name of the last one
    rendering,  \* requests on the global queue
    mainQueue,  \* [request, result] of the blocks on the main queue, in order
    image,      \* the picture in the image view: the request it is from
    completed,  \* requests whose completion block has been called with nil
    failed,     \* those called with an error
    overtaken   \* history: requests rendered after a later one

blurVars == <<made, rendering, mainQueue, image, completed, failed, overtaken>>

Requests == 1..MaxRequests
Images   == Requests \cup {NoImage}

BlurTypeOK ==
    /\ made \in 0..MaxRequests
    /\ rendering \subseteq Requests
    /\ mainQueue \in Seq([request : Requests, result : Images])
    /\ image \in Images
    /\ completed \subseteq Requests
    /\ failed \subseteq Requests
    /\ overtaken \subseteq Requests

BlurInit ==
    /\ made = 0
    /\ rendering = {}
    /\ mainQueue = <<>>
    /\ image = NoImage
    /\ completed = {}
    /\ failed = {}
    /\ overtaken = {}

(* Mutants: no return after the error; the error is kept. *)
SetImageToBlurGoesOn ==
    /\ made < MaxRequests
    /\ made' = made + 1
    /\ rendering' = rendering \cup {made'}
    /\ failed' \in {failed, failed \cup {made'}}
    /\ UNCHANGED <<mainQueue, image, completed, overtaken>>

SetImageToBlurSilent ==
    /\ made < MaxRequests
    /\ made' = made + 1
    /\ rendering' \in {rendering, rendering \cup {made'}}
    /\ UNCHANGED <<mainQueue, image, completed, failed, overtaken>>

(* setImageToBlur: up to dispatch_async; without the filters the           *)
(* completion block is called at once, with an error.                      *)
SetImageToBlur ==
    /\ made < MaxRequests
    /\ made' = made + 1
    /\ \/ rendering' = rendering \cup {made'} /\ UNCHANGED failed
       \/ FilterMayLack /\ failed' = failed \cup {made'} /\ UNCHANGED rendering
    /\ UNCHANGED <<mainQueue, image, completed, overtaken>>

(* A thread of the global queue has rendered request r. *)
Render(r) ==
    /\ r \in rendering
    /\ rendering' = rendering \ {r}
    /\ \E result \in {r} \cup (IF RenderMayFail THEN {NoImage} ELSE {}) :
          mainQueue' = Append(mainQueue, [request |-> r, result |-> result])
    /\ overtaken' = overtaken \cup {o \in rendering : o < r}
    /\ UNCHANGED <<made, image, completed, failed>>

(* Mutant: the block posted last runs first. *)
SetImageLastFirst ==
    /\ mainQueue # <<>>
    /\ mainQueue' = SubSeq(mainQueue, 1, Len(mainQueue) - 1)
    /\ image' = mainQueue[Len(mainQueue)].result
    /\ completed' = completed \cup {mainQueue[Len(mainQueue)].request}
    /\ UNCHANGED <<made, rendering, failed, overtaken>>

(* The block that a rendered request has posted to the main queue. *)
SetImage ==
    /\ mainQueue # <<>>
    /\ mainQueue' = Tail(mainQueue)
    /\ image' = Head(mainQueue).result
    /\ completed' = completed \cup {Head(mainQueue).request}
    /\ UNCHANGED <<made, rendering, failed, overtaken>>

BlurNext ==
    \/ SetImageToBlur
    \/ \E r \in Requests : Render(r)
    \/ SetImage

(* Every block that has been dispatched runs in the end. *)
BlurSpec ==
    /\ BlurInit
    /\ [][BlurNext]_blurVars
    /\ \A r \in Requests : WF_blurVars(Render(r))
    /\ WF_blurVars(SetImage)

------------------------------------------------------------------------------
(* Properties *)

Idle == rendering = {} /\ mainQueue = <<>>

(* Each request is in exactly one place: none is lost or completed twice,  *)
(* in whatever order the threads finish.                                   *)
Waiting == {mainQueue[i].request : i \in 1..Len(mainQueue)}
EachRequestOnce ==
    /\ rendering \cup Waiting \cup completed \cup failed = 1..made
    /\ rendering \cap (Waiting \cup completed \cup failed) = {}
    /\ Waiting \cap (completed \cup failed) = {}
    /\ completed \cap failed = {}
    /\ \A i, j \in 1..Len(mainQueue) :
          i # j => mainQueue[i].request # mainQueue[j].request

(* When all is done the newest picture is on screen, unless one that was   *)
(* rendered after a later one: no other interleaving puts an old blur on   *)
(* top of a new one.                                                       *)
Newest(s) == CHOOSE r \in s : \A o \in s : o <= r
OnlyOvertakingHidesNewest ==
    Idle /\ completed # {} => image = Newest(completed) \/ image \in overtaken

(* Every request gets its completion block called, with or without error. *)
EveryRequestCompletes ==
    \A r \in Requests : made >= r ~> r \in completed \cup failed

(* "completion: a completion block called after the image was blurred and  *)
(* set": once a request has completed without an error, some blurred       *)
(* picture is on screen.                                                   *)
CompletedMeansImageSet == completed # {} => image # NoImage
===============================================================================
