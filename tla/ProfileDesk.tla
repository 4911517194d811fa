----------------------------- MODULE ProfileDesk -----------------------------
(***************************************************************************)
(* A club's own page of settings: one form, filled once from the profile   *)
(* in the cache and saved as a whole, and two images, each saved as soon   *)
(* as it is picked.  The save, the images and the loading of the profile   *)
(* are on their way at the same time, and write one entry of the cache.    *)
(***************************************************************************)
EXTENDS Naturals, FiniteSets

CONSTANTS
    Fields,
    Required,     \* the fields that may not be left empty once anything is saved
    Inputs,       \* what can be typed into a field; "" is nothing
    Plain(_),     \* what the server keeps of it
    Slots,        \* the images: the avatar and the banner
    MaxImages,    \* bound: images ever picked for one slot
    MaxOthers,    \* bound: changes made on other devices
    MaxOut,       \* bound: requests that are not answered
    None

\* Of the constants; assumed where they are given values.
ProfileAssumption ==
    /\ Required \subseteq Fields /\ "" \in Inputs
    /\ \A v \in Inputs : Plain(v) \in Inputs /\ Plain(Plain(v)) = Plain(v)
    /\ MaxImages \in Nat /\ MaxOthers \in Nat /\ MaxOut \in Nat

VARIABLES
    profile,    \* as the server has it: [text, image]; of each image the number of its pick, 0 for none
    cache,      \* as the browser has it, or None
    form,       \* what stands in the fields, or None while the page is not shown
    saved,      \* the values the form was last filled with
    dirty,      \* the fields marked as changed
    out,        \* requests on their way
    picks,      \* how many images were picked, of each slot
    others

vars == <<profile, cache, form, saved, dirty, out, picks, others>>

\* A request, and what the server answered to it: its profile as it then was.
Request(what, slot, sent, image) ==
    [what |-> what, slot |-> slot, sent |-> sent, image |-> image, here |-> what # "load", reply |-> None]
Texts == [Fields -> Inputs]
Profiles == [text: Texts, image: [Slots -> 0 .. MaxImages]]

TypeOK ==
    /\ profile \in Profiles /\ cache \in Profiles \cup {None}
    /\ form \in Texts \cup {None} /\ saved \in Texts \cup {None} /\ dirty \subseteq Fields
    /\ picks \in [Slots -> 0 .. MaxImages] /\ others \in 0 .. MaxOthers
    /\ \A r \in out : r.what \in {"load", "save", "image"} /\ r.reply \in Profiles \cup {None}

Init ==
    /\ profile \in {[text |-> t, image |-> [s \in Slots |-> 0]] : t \in {u \in Texts : \A f \in Fields : u[f] = Plain(u[f])}}
    /\ cache = None /\ form = None /\ saved = None /\ dirty = {} /\ out = {}
    /\ picks = [s \in Slots |-> 0] /\ others = 0

Send(request) == Cardinality(out) < MaxOut /\ out' = out \cup {request}

Shown == form # None
Saving == \E r \in out : r.what = "save" /\ r.here
Busy(slot) == \E r \in out : r.what = "image" /\ r.slot = slot /\ r.here

(***************************************************************************)
(* The form.                                                               *)
(***************************************************************************)
Changed(values, base) == {f \in Fields : values[f] # base[f]}

\* What is filled in is the baseline.
Fill(text) == form' = text /\ saved' = text /\ dirty' = {}

\* The page is opened: what the cache has, old or not, fills the form, and is
\* loaded again unless it is being loaded.
Open ==
    /\ ~Shown
    /\ IF \E r \in out : r.what = "load" THEN UNCHANGED out ELSE Send(Request("load", None, None, 0))
    /\ IF cache = None THEN UNCHANGED <<form, saved, dirty>> ELSE Fill(cache.text)
    /\ UNCHANGED <<profile, cache, picks, others>>

\* Left, after a question if anything is marked; what is on its way still arrives.
Leave ==
    /\ Shown
    /\ form' = None /\ saved' = None /\ dirty' = {}
    /\ out' = {[r EXCEPT !.here = FALSE] : r \in out}
    /\ UNCHANGED <<profile, cache, picks, others>>

\* The fields stay open while the form is being saved.
Type ==
    /\ Shown
    /\ \E f \in Fields, v \in Inputs :
         /\ v # form[f]
         /\ form' = [form EXCEPT ![f] = v]
    /\ dirty' = Changed(form', saved)
    /\ UNCHANGED <<profile, cache, saved, out, picks, others>>

\* Everything is sent, if anything was changed and nothing required is missing.
Save ==
    /\ Shown /\ ~Saving
    /\ Changed(form, saved) # {} /\ \A f \in Required : form[f] # ""
    /\ Send(Request("save", None, form, 0))
    /\ UNCHANGED <<profile, cache, form, saved, dirty, picks, others>>

\* An image picked, or taken away, is sent at once; its two buttons wait for the answer.
Pick ==
    /\ Shown
    /\ \E s \in Slots :
         /\ ~Busy(s)
         /\ \/ /\ picks[s] < MaxImages
               /\ picks' = [picks EXCEPT ![s] = @ + 1]
               /\ Send(Request("image", s, None, picks[s] + 1))
            \/ /\ cache.image[s] # 0
               /\ Send(Request("image", s, None, 0)) /\ UNCHANGED picks
    /\ UNCHANGED <<profile, cache, form, saved, dirty, others>>

(***************************************************************************)
(* The server.                                                             *)
(***************************************************************************)
After(r) ==
    CASE r.what = "save"  -> [profile EXCEPT !.text = [f \in Fields |-> Plain(r.sent[f])]]
      [] r.what = "image" -> [profile EXCEPT !.image[r.slot] = r.image]
      [] OTHER            -> profile

Serve ==
    /\ \E r \in out :
         /\ r.reply = None
         /\ profile' = After(r) /\ out' = (out \ {r}) \cup {[r EXCEPT !.reply = profile']}
    /\ UNCHANGED <<cache, form, saved, dirty, picks, others>>

\* Another officer of the club, on another device, changes a field.
Other ==
    /\ others < MaxOthers /\ others' = others + 1
    /\ \E f \in Fields, v \in Inputs : profile' = [profile EXCEPT !.text[f] = Plain(v)] /\ profile' # profile
    /\ UNCHANGED <<cache, form, saved, dirty, out, picks>>

(***************************************************************************)
(* The answers, in any order.                                              *)
(***************************************************************************)
\* Mutant: the answer to a save replaces the whole entry.
KeepNothing(next) == next

\* The save's answer holds everything but the images.
KeepImages(next) == IF cache = None THEN next ELSE [next EXCEPT !.image = cache.image]

\* Mutant: the answer to an image replaces the whole entry.
MergeWhole(slot, next) == next

\* An image's answer holds its own image only.
MergeImage(slot, next) == IF cache = None THEN next ELSE [cache EXCEPT !.image[slot] = next.image[slot]]

LoadArrives ==
    \E r \in out :
      /\ r.what = "load" /\ out' = out \ {r}
      /\ \/ UNCHANGED <<cache, form, saved, dirty>>
         \/ /\ r.reply # None /\ cache' = r.reply
            /\ IF cache = None THEN Fill(r.reply.text) ELSE UNCHANGED <<form, saved, dirty>>

\* The fields are filled with what the server has kept, which is not always what was
\* typed, and with it goes what was typed meanwhile.
SaveArrives ==
    \E r \in out :
      /\ r.what = "save" /\ out' = out \ {r}
      /\ \/ UNCHANGED <<cache, form, saved, dirty>>
         \/ /\ r.reply # None /\ cache' = KeepImages(r.reply)
            /\ IF r.here THEN Fill(r.reply.text) ELSE UNCHANGED <<form, saved, dirty>>

ImageArrives ==
    /\ \E r \in out :
         /\ r.what = "image" /\ out' = out \ {r}
         /\ \/ UNCHANGED cache
            \/ r.reply # None /\ cache' = MergeImage(r.slot, r.reply)
    /\ UNCHANGED <<form, saved, dirty>>

Answers == (LoadArrives \/ SaveArrives \/ ImageArrives) /\ UNCHANGED <<profile, picks, others>>

Next == Open \/ Leave \/ Type \/ Save \/ Pick \/ Serve \/ Other \/ Answers

Spec == Init /\ [][Next]_vars

(***************************************************************************)
(* What makes it hold.                                                     *)
(***************************************************************************)
Requests ==
    [what: {"load", "save", "image"}, slot: Slots \cup {None}, sent: Texts \cup {None}, image: 0 .. MaxImages,
     here: BOOLEAN, reply: Profiles \cup {None}]

\* A save has all its texts, an image its slot.
RequestsInv ==
    /\ out \subseteq Requests
    /\ \A r \in out : (r.what = "save" => r.sent \in Texts) /\ (r.what = "image" => r.slot \in Slots)

\* What is shown was filled from the cache.
FilledInv == Shown => cache \in Profiles /\ form \in Texts /\ saved \in Texts

Inv == TypeOK /\ RequestsInv /\ FilledInv

(***************************************************************************)
(* What must hold.                                                         *)
(***************************************************************************)
\* The answer to a save, or to one image, never takes back the other image: an image the
\* page has shown since its own answer stays, whatever order the answers come in
\* (api/clubProfile.ts: mergeImage, keepImages).
KeepsImages ==
    \A s \in Slots : Shown /\ cache # None /\ cache'.image[s] # cache.image[s]
      => \E r \in out : r.reply # None /\ r \notin out' /\ (r.what = "load" \/ (r.what = "image" /\ r.slot = s))

\* A field nobody has changed shows what the server last said, and so a save of the whole
\* form leaves it as it is.  It does not: the form keeps what it was filled with while
\* the profile is loaded again behind it (features/club-settings/fields.ts: fromProfile).
UntouchedIsCurrent == Shown => \A f \in Fields \ dirty : form[f] = cache.text[f]
=============================================================================
