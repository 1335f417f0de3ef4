----------------------------- MODULE CreateForm -----------------------------
(***************************************************************************)
(* The page that creates a market (pages/create/Create.jsx).  A submission *)
(* posts the market, then puts its image, then goes to the new market's    *)
(* page; it runs on when the user edits the form, submits again or leaves. *)
(* Texts and category are left out; of a draft there remain what the       *)
(* guards look at and the image, which has to reach the right market.      *)
(***************************************************************************)
EXTENDS Naturals, Sequences

CONSTANTS
  Files,          \* images the user may choose
  NoFile,         \* none chosen
  MaxSubmissions  \* bound on the submissions

ASSUME CreateAssumption == NoFile \notin Files /\ MaxSubmissions \in Nat

VARIABLES
  place,    \* where the user is: on the form, at a market, elsewhere
  draft,    \* state of the form
  error,    \* the red box of the form, and the submission it is about
  jobs,     \* submissions that have not ended
  created,  \* markets of the server, named after their submission
  chosen    \* history: the image of each submission so far

createVars == <<place, draft, error, jobs, created, chosen>>

Submissions == 1..MaxSubmissions
Form == [page |-> "form", market |-> 0]
Elsewhere == [page |-> "elsewhere", market |-> 0]
MarketAt(n) == [page |-> "market", market |-> n]

(* The labels as trimmed; emojis go past the 20 characters of the input.   *)
Draft == [label : {"fits", "long"}, date : {"set", "cleared"},
          file : Files \cup {NoFile}]
NewDraft == [label |-> "fits", date |-> "set", file |-> NoFile]

Error == [kind : {"none", "local", "rejected", "unclear"},
          of : Submissions \cup {0}]
NoError == [kind |-> "none", of |-> 0]
Local == [kind |-> "local", of |-> 0]

(* Stages: posted, created or refused (an answer is due), uploading,       *)
(* uploaded.  mounted: the form it was sent from is still on the page.     *)
Job == [id : Submissions, draft : Draft, mounted : BOOLEAN,
        stage : {"posted", "created", "refused", "uploading", "uploaded"}]

CreateInit ==
  /\ place = Form /\ draft = NewDraft /\ error = NoError
  /\ jobs = {} /\ created = <<>> /\ chosen = <<>>

-----------------------------------------------------------------------------
(* The user.                                                               *)

Type(d) ==
  /\ place = Form /\ d # draft /\ d.file = draft.file
  /\ draft' = d
  /\ UNCHANGED <<place, error, jobs, created, chosen>>

(* A cancelled choice keeps the earlier image; so does one over 2 MB.      *)
ChooseImage(f) ==
  /\ place = Form
  /\ \/ draft' = [draft EXCEPT !.file = f] /\ UNCHANGED error
     \/ error' = Local /\ UNCHANGED draft
  /\ UNCHANGED <<place, jobs, created, chosen>>

(* handleSubmit: the checks, then POST /v0/create.  Nothing disables the   *)
(* button while a submission runs.  hasToken: storage holds a token.       *)
Submit(hasToken) ==
  /\ place = Form /\ Len(chosen) < MaxSubmissions
  /\ UNCHANGED <<place, draft, created>>
  /\ IF draft.label = "long" \/ ~hasToken
     THEN error' = Local /\ UNCHANGED <<jobs, chosen>>
     ELSE /\ error' = NoError /\ chosen' = Append(chosen, draft.file)
          /\ jobs' = jobs \cup {[id |-> Len(chosen'), draft |-> draft,
                                 mounted |-> TRUE, stage |-> "posted"]}

(* Leaving unmounts the form, coming back mounts an empty one; submissions *)
(* of the old one run on.                                                  *)
Unmounted(js) == {[j EXCEPT !.mounted = FALSE] : j \in js}

LeaveForm ==
  /\ place = Form
  /\ place' = Elsewhere /\ draft' = NewDraft /\ error' = NoError
  /\ jobs' = Unmounted(jobs)
  /\ UNCHANGED <<created, chosen>>

OpenForm ==
  /\ place # Form
  /\ place' = Form
  /\ UNCHANGED <<draft, error, jobs, created, chosen>>

-----------------------------------------------------------------------------
(* The server.                                                             *)

To(j, stage) == jobs' = (jobs \ {j}) \cup {[j EXCEPT !.stage = stage]}

(* Market creation, or any of its refusals; a cleared date does not parse. *)
ServeCreate(j) ==
  /\ j.stage = "posted"
  /\ \/ /\ j.draft.date = "set"
        /\ created' = [n \in DOMAIN created \cup {j.id} |->
                         IF n = j.id THEN NoFile ELSE created[n]]
        /\ To(j, "created")
     \/ To(j, "refused") /\ UNCHANGED created
  /\ UNCHANGED <<place, draft, error, chosen>>

(* The upload, or any of its refusals: the page treats them alike.         *)
ServeImage(j) ==
  /\ j.stage = "uploading"
  /\ \/ created' = [created EXCEPT ![j.id] = j.draft.file]
     \/ UNCHANGED created
  /\ To(j, "uploaded")
  /\ UNCHANGED <<place, draft, error, chosen>>

-----------------------------------------------------------------------------
(* The rest of handleSubmit, after each await.                             *)

Report(j, kind) ==
  error' = IF j.mounted THEN [kind |-> kind, of |-> j.id] ELSE error

(* history.push leaves whatever page the user is on.                       *)
GoToMarket(j) ==
  /\ place' = MarketAt(j.id) /\ draft' = NewDraft /\ error' = NoError
  /\ jobs' = Unmounted(jobs \ {j})

(* Mutant: the image is taken from the form when the answer arrives.       *)
UploadCurrentImage(j) ==
  /\ j.stage = "created" /\ draft.file # NoFile
  /\ jobs' = (jobs \ {j}) \cup
             {[j EXCEPT !.stage = "uploading", !.draft.file = draft.file]}
  /\ UNCHANGED <<place, draft, error, created, chosen>>

Upload(j) ==
  /\ j.stage = "created" /\ j.draft.file # NoFile
  /\ To(j, "uploading")
  /\ UNCHANGED <<place, draft, error, created, chosen>>

Finish(j) ==
  /\ \/ j.stage = "created" /\ j.draft.file = NoFile
     \/ j.stage = "uploaded"
  /\ GoToMarket(j)
  /\ UNCHANGED <<created, chosen>>

Refused(j) ==
  /\ j.stage = "refused"
  /\ Report(j, "rejected")
  /\ jobs' = jobs \ {j}
  /\ UNCHANGED <<place, draft, created, chosen>>

(* Mutant: a request without an answer ends without a message.             *)
LoseSilently(j) ==
  /\ jobs' = jobs \ {j}
  /\ UNCHANGED <<place, draft, error, created, chosen>>

(* Mutant: a request without an answer is reported as refused.             *)
LoseAsRefused(j) ==
  /\ Report(j, "rejected")
  /\ jobs' = jobs \ {j}
  /\ UNCHANGED <<place, draft, created, chosen>>

(* fetch rejects, before or after the server acted: the catch block.       *)
Lose(j) ==
  /\ Report(j, "unclear")
  /\ jobs' = jobs \ {j}
  /\ UNCHANGED <<place, draft, created, chosen>>

-----------------------------------------------------------------------------
CreateServe == \E j \in jobs : ServeCreate(j) \/ ServeImage(j)
CreateArrive == \E j \in jobs : Upload(j) \/ Finish(j) \/ Refused(j)

CreateNext ==
  \/ \E d \in Draft : Type(d)
  \/ \E f \in Files : ChooseImage(f)
  \/ \E hasToken \in BOOLEAN : Submit(hasToken)
  \/ LeaveForm \/ OpenForm
  \/ CreateServe \/ CreateArrive
  \/ \E j \in jobs : Lose(j)

(* Requests are answered, well or badly.                                   *)
CreateFairness == WF_createVars(CreateServe) /\ WF_createVars(CreateArrive)

CreateSpec == CreateInit /\ [][CreateNext]_createVars /\ CreateFairness

-----------------------------------------------------------------------------
(* The values the variables take; the user is never at a market that does  *)
(* not exist.                                                              *)
CreateTypeOK ==
  /\ place \in {Form, Elsewhere} \cup {MarketAt(n) : n \in DOMAIN created}
  /\ draft \in Draft /\ error \in Error /\ jobs \subseteq Job
  /\ Len(chosen) <= MaxSubmissions
  /\ DOMAIN created \subseteq DOMAIN chosen
  /\ \A n \in DOMAIN created : created[n] \in Files \cup {NoFile}

(* A market shows no image or the one that was in the form when it was     *)
(* submitted, whatever was chosen or submitted since.                      *)
ImageOfSubmission ==
  \A n \in DOMAIN created : created[n] \in {NoFile, chosen[n]}

(* While the form says that the creation failed, the submission it speaks  *)
(* of made no market and will make none.                                   *)
FailureMeansNoMarket ==
  error.kind = "rejected" =>
    /\ error.of \notin DOMAIN created
    /\ \A j \in jobs : j.id # error.of

(* Whoever waits on the form for a submission gets away from it or reads   *)
(* why not.                                                                *)
Waits == place = Form /\ \E j \in jobs : j.mounted
SubmissionSettles == Waits ~> (place # Form \/ error.kind # "none")
=============================================================================
