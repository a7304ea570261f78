-------------------------------- MODULE Images --------------------------------
(***************************************************************************)
(* The images of a user, src/utils/imagemgr.py: rows of the table Image    *)
(* and two directories of the shared file system. The handlers of          *)
(* httprest.py hold the user's lock, so there is one operation at a time,  *)
(* op; what an operation does to the database and to a file are two steps, *)
(* and the errors of the second are logged and no more. The file of an     *)
(* image that another site sends arrives without the lock. Worker.tla      *)
(* composes this with the nodes that make and read images.                 *)
(***************************************************************************)
EXTENDS Naturals, FiniteSets

CONSTANTS
  Image,    \* names users give
  Tmp,      \* the image a migration makes
  MaxEvent  \* bound: requests, and faults, which count twice

ASSUME ImagesAssumption == Tmp \notin Image /\ MaxEvent \in Nat

VARIABLES
  shown,    \* the row of an image: which of hasPrivate, hasPublic; no row if neither
  file,     \* global/images/private/<user>: nothing, a useless archive, or one of data
  pub,      \* global/images/public/<user>
  coming,   \* images whose file another site has sent, and that have not been announced
  op,       \* what holds the user's lock
  mishap, used

image_vars == <<shown, file, pub, coming>>

AnyImage == Image \union {Tmp}
ImageCause == {"copy",   \* the copy of a shared image failed
               "again",  \* a shared image that was removed is saved again
               "crossed",\* another site's file arrived during an operation
               "scp"}    \* the file of another site never arrived

Idle == [do |-> "none", i |-> Tmp, at |-> "none"]

ImageInit ==
  /\ shown = [i \in AnyImage |-> {}]
  /\ file = [i \in AnyImage |-> "none"] /\ pub = [i \in AnyImage |-> "none"]
  /\ coming = {} /\ op = Idle

Spend(cost) == used + cost <= MaxEvent /\ used' = used + cost
Requested == Spend(1)
Blame(causes) == mishap' = mishap \union causes
To(at) == op' = [op EXCEPT !.at = at]

\* The row of an image that was written is made unless there is one. One there
\* is stays as it is: hasPrivate is not set again.
UpdateInfo(i) ==
  /\ shown' = [shown EXCEPT ![i] = IF @ = {} THEN {"private"} ELSE @]
  /\ Blame(IF shown[i] = {"public"} THEN {"again"} ELSE {})

-----------------------------------------------------------------------------

\* An image that is shared, or that has no row, is left alone.
Share(i) ==
  /\ op = Idle /\ Requested
  /\ shown[i] = {"private"}
  /\ shown' = [shown EXCEPT ![i] = @ \union {"public"}]
  /\ op' = [do |-> "share", i |-> i, at |-> "copy"]
  /\ UNCHANGED <<file, pub, coming, mishap>>

\* cp: of the whole file, or it fails and the handler answers "success".
ShareCopy ==
  /\ op.do = "share" /\ op.at = "copy" /\ op' = Idle
  /\ \/ file[op.i] # "none" /\ pub' = [pub EXCEPT ![op.i] = file[op.i]] /\ UNCHANGED <<mishap, used>>
     \/ \E left \in {pub[op.i], "empty"} :
          Spend(2) /\ pub' = [pub EXCEPT ![op.i] = left] /\ Blame({"copy"})
     \/ file[op.i] = "none" /\ Blame({"copy"}) /\ UNCHANGED <<pub, used>>
  /\ UNCHANGED <<shown, file, coming>>

Without_mutant(i, one) == [shown EXCEPT ![i] = {}]
\* One flag is cleared, and the row deleted when the other is not set.
Without(i, one) == [shown EXCEPT ![i] = @ \ {one}]

Unshare(i) ==
  /\ op = Idle /\ Requested /\ shown[i] # {}
  /\ shown' = Without(i, "public") /\ op' = [do |-> "unshare", i |-> i, at |-> "rm"]
  /\ UNCHANGED <<file, pub, coming, mishap>>

Remove(i) ==
  /\ op = Idle /\ Requested /\ shown[i] # {}
  /\ shown' = Without(i, "private") /\ op' = [do |-> "remove", i |-> i, at |-> "rm"]
  /\ Blame(IF i \in coming THEN {"crossed"} ELSE {})
  /\ UNCHANGED <<file, pub, coming>>

UnshareFile ==
  /\ op.do = "unshare" /\ op.at = "rm" /\ op' = Idle
  /\ pub' = [pub EXCEPT ![op.i] = "none"] /\ UNCHANGED <<shown, file, coming, mishap, used>>

RemoveFile ==
  /\ op.do \in {"remove", "migrate"} /\ op.at = "rm" /\ op' = Idle
  /\ file' = [file EXCEPT ![op.i] = "none"] /\ UNCHANGED <<shown, pub, coming, mishap, used>>

\* copyImage at the other site: scp, whose failure it does not look at.
Arrive(i) ==
  /\ i \notin coming /\ Requested /\ coming' = coming \union {i}
  /\ \/ file' = [file EXCEPT ![i] = "data"]
        /\ Blame(IF op = Idle THEN {} ELSE {"crossed"})
     \/ file[i] = "none" /\ Blame({"scp"}) /\ UNCHANGED file
  /\ UNCHANGED <<shown, pub, op>>

\* Then its request /image/copytarget/ has the row made.
Announced(i) ==
  /\ i \in coming /\ op = Idle /\ coming' = coming \ {i} /\ UpdateInfo(i)
  /\ UNCHANGED <<file, pub, op, used>>

ImageStep ==
  \/ ShareCopy \/ UnshareFile \/ RemoveFile
  \/ \E i \in Image : Share(i) \/ Unshare(i) \/ Remove(i) \/ Arrive(i) \/ Announced(i)

-----------------------------------------------------------------------------

\* What a user is told: the private list is the files of the directory, with the
\* mark "shared" from the rows; the public list is the files of the other.
ListImages(i) ==
  [private |-> file[i] # "none", isshared |-> "public" \in shown[i], public |-> pub[i] # "none"]
=============================================================================
