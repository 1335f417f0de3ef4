----------------------------- MODULE ProfileForm ----------------------------
(***************************************************************************)
(* A user edits her own profile: the page with its dialog and the four     *)
(* editors in it (layouts/profile/private/PrivateUserInfoLayout.jsx and    *)
(* buttons/profile/), and the handlers that save, of which the links       *)
(* handler updates its columns and the others save the whole row they      *)
(* read.  Money moving in the same row is the matter of Exchange.          *)
(* Left out: the emoji search, success messages and the Saving... caption. *)
(***************************************************************************)
EXTENDS Naturals, Sequences

CONSTANT MaxSaves    \* bound on the saves

ASSUME ProfileAssumption == MaxSaves \in Nat

VARIABLES
  saved,    \* the user's row
  profile,  \* React state of the page: what it shows, and its dialog
  saves,    \* saves on their way
  pressed   \* saves so far

profileVars == <<saved, profile, saves, pressed>>

Texts == {"emoji", "displayname", "description"}
Fields == Texts \cup {"links"}
Slots == 1..2                       \* of the four links

(* Texts as typed.  "padded" is one that the sanitizer changes: it trims,  *)
(* strips and escapes markup and completes links; what is left is "new".   *)
Values == {"blank", "old", "new", "padded"}
Typed == {"blank", "padded"}
Clean(v) == IF v = "padded" THEN "new" ELSE v
NoLinks == [s \in Slots |-> "blank"]
Links == [Slots -> Values]
Contents(f) == IF f = "links" THEN Links ELSE Values
CleanContent(f, c) ==
  IF f = "links" THEN [s \in Slots |-> Clean(c[s])] ELSE Clean(c)

Showing == [texts : [Texts -> Values], links : Links, known : BOOLEAN]
Shows(f) == IF f = "links" THEN profile.shown.links
            ELSE profile.shown.texts[f]
Stored(f) == IF f = "links" THEN saved.links ELSE saved.texts[f]

(* known: the links have been saved from this page.  disturbed is history: *)
(* saves overlapped, or an answer was lost.                                *)
Opened(texts) ==
  [shown |-> [texts |-> texts, links |-> NoLinks, known |-> FALSE],
   editor |-> "closed", typed |-> "blank", disturbed |-> FALSE]

ProfileInit ==
  /\ saved = [texts |-> [f \in Texts |-> "old"],
              links |-> [NoLinks EXCEPT ![1] = "old"]]
  /\ profile = Opened(saved.texts)
  /\ saves = {} /\ pressed = 0

-----------------------------------------------------------------------------
(* The dialog.                                                             *)

SameSaves == UNCHANGED <<saved, saves, pressed>>

(* A text editor starts empty.  The links editor starts with what the page *)
(* shows: the row's keys are spelled personalinkN, the page reads          *)
(* personalLinkN, so there is nothing to show before the first save.       *)
OpenEditor(f) ==
  /\ profile.editor = "closed"
  /\ profile' = [profile EXCEPT !.editor = f,
                   !.typed = IF f = "links" THEN Shows(f) ELSE "blank"]
  /\ SameSaves

CloseEditor ==
  /\ profile.editor # "closed"
  /\ profile' = [profile EXCEPT !.editor = "closed", !.typed = "blank"]
  /\ SameSaves

EnterText(v) ==
  /\ profile.editor \in Texts
  /\ profile' = [profile EXCEPT !.typed = v]
  /\ SameSaves

EnterLink(s, v) ==
  /\ profile.editor = "links"
  /\ profile' = [profile EXCEPT !.typed[s] = v]
  /\ SameSaves

(* handleSave of the four editors: the texts must not be blank.  The links *)
(* editor disables its button during a save, which SiteButton ignores.     *)
PressSave ==
  /\ profile.editor # "closed" /\ pressed < MaxSaves
  /\ profile.editor \in Texts => profile.typed # "blank"
  /\ pressed' = pressed + 1
  /\ saves' = saves \cup {[id |-> pressed', field |-> profile.editor,
                           content |-> profile.typed, stage |-> "posted",
                           awaited |-> TRUE, row |-> saved]}
  /\ profile' = [profile EXCEPT !.disturbed = @ \/ saves # {}]
  /\ UNCHANGED saved

-----------------------------------------------------------------------------
(* The handlers: ValidateTokenAndGetUser reads, then the save.             *)

Advances(j, k) == saves' = (saves \ {j}) \cup {k}

ReadRow(j) ==
  /\ j.stage = "posted"
  /\ Advances(j, [j EXCEPT !.stage = "read", !.row = saved])
  /\ UNCHANGED <<saved, profile, pressed>>

(* Too long, dangerous, a display name in use, a failing database.         *)
RefuseSave(j) ==
  /\ j.stage \in {"posted", "read"}
  /\ Advances(j, [j EXCEPT !.stage = "refused"])
  /\ UNCHANGED <<saved, profile, pressed>>

(* db.Save(&user): the whole row as read, with one column changed.         *)
SaveText(j) ==
  /\ j.stage = "read" /\ j.field \in Texts
  /\ saved' = [j.row EXCEPT !.texts[j.field] = Clean(j.content)]
  /\ Advances(j, [j EXCEPT !.stage = "saved"])
  /\ UNCHANGED <<profile, pressed>>

(* Updates of the link columns; all of them, whatever was filled in.       *)
SaveLinks(j) ==
  /\ j.stage = "read" /\ j.field = "links"
  /\ saved' = [saved EXCEPT !.links = CleanContent("links", j.content)]
  /\ Advances(j, [j EXCEPT !.stage = "saved"])
  /\ UNCHANGED <<profile, pressed>>

-----------------------------------------------------------------------------
(* The answers.  onSave shows what was typed, not what was stored, and     *)
(* closes whatever editor is open by then.                                 *)

OnSave(j) ==
  profile' = [profile EXCEPT
    !.shown = IF j.field = "links"
              THEN [@ EXCEPT !.links = j.content, !.known = TRUE]
              ELSE [@ EXCEPT !.texts[j.field] = j.content],
    !.editor = "closed", !.typed = "blank"]

SaveAnswered(j) ==
  /\ j.stage = "saved"
  /\ IF j.awaited THEN OnSave(j) ELSE UNCHANGED profile
  /\ saves' = saves \ {j}
  /\ UNCHANGED <<saved, pressed>>

(* Mutant: response.ok is not looked at.                                   *)
RefusedShown(j) ==
  /\ j.stage = "refused"
  /\ IF j.awaited THEN OnSave(j) ELSE UNCHANGED profile
  /\ saves' = saves \ {j}
  /\ UNCHANGED <<saved, pressed>>

(* The text editors only log it; the editor stays as it is.                *)
SaveRefused(j) ==
  /\ j.stage = "refused"
  /\ saves' = saves \ {j}
  /\ UNCHANGED <<saved, profile, pressed>>

(* fetch rejects, while the server may go on.                              *)
LoseSave(j) ==
  /\ j.awaited
  /\ profile' = [profile EXCEPT !.disturbed = TRUE]
  /\ Advances(j, [j EXCEPT !.awaited = FALSE])
  /\ UNCHANGED <<saved, pressed>>

(* Coming back to the page shows the row as it is, without the links, and  *)
(* no answer to an earlier save.                                           *)
ReopenProfile ==
  /\ profile' = [Opened(saved.texts) EXCEPT !.disturbed = saves # {}]
  /\ saves' = {[j EXCEPT !.awaited = FALSE] : j \in saves}
  /\ UNCHANGED <<saved, pressed>>

ProfileNext ==
  \/ \E f \in Fields : OpenEditor(f)
  \/ CloseEditor
  \/ \E v \in Typed : EnterText(v)
  \/ \E s \in Slots, v \in Typed : EnterLink(s, v)
  \/ PressSave \/ ReopenProfile
  \/ \E j \in saves :
       \/ ReadRow(j) \/ RefuseSave(j) \/ SaveText(j) \/ SaveLinks(j)
       \/ SaveAnswered(j) \/ SaveRefused(j) \/ LoseSave(j)

ProfileSpec == ProfileInit /\ [][ProfileNext]_profileVars

-----------------------------------------------------------------------------
(* The values the variables take; an editor that is closed holds nothing.  *)
ProfileTypeOK ==
  /\ saved.texts \in [Texts -> Values] /\ saved.links \in Links
  /\ profile.shown \in Showing
  /\ profile.disturbed \in BOOLEAN /\ pressed \in 0..MaxSaves
  /\ \/ profile.editor = "closed" /\ profile.typed = "blank"
     \/ profile.editor \in Fields
        /\ profile.typed \in Contents(profile.editor)
  /\ \A j \in saves : j.field \in Fields /\ j.content \in Contents(j.field)

(* With one save at a time and no answer lost, the page shows what the     *)
(* server stored, but for what the sanitizer changed; of the links, those  *)
(* saved from it.                                                          *)
ShownIsSaved ==
  (saves = {} /\ ~profile.disturbed) =>
    \A f \in Fields :
      (f = "links" => profile.shown.known)
        => CleanContent(f, Shows(f)) = Stored(f)
=============================================================================
