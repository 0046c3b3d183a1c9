--------------------------- MODULE TemplateDialogs ----------------------------
(***************************************************************************)
(* The two dialogs about published strategies (frontend builder            *)
(* TemplatePublisher.tsx, TemplateCatalog.tsx) against the service         *)
(* (templates.ts, http.ts): a provider reviews, signs and publishes a      *)
(* version; a maker makes a draft of one, or its provider withdraws it.    *)
(* An answer that is lost leaves open whether the request was done, or     *)
(* will be yet: the dialog keeps its key and asks again under it, for as   *)
(* long as it is open.  What it kept goes with it when it is closed, or    *)
(* when an answer says that the session ended.                             *)
(***************************************************************************)
EXTENDS Naturals, Sequences, FiniteSets

CONSTANTS
  Contents,  \* what can be entered in a dialog
  MaxKeys,   \* bound: keys made
  MaxLost,   \* bound: answers lost, requests turned away at the door, dialogs left
  None

VARIABLES
  dialog,      \* "publisher", "catalog", or "done"
  content,     \* what is entered
  review,      \* the intent under review, or 0
  key,         \* pending: the key of a publication or of a new draft, or 0
  prepareKey,  \* the key of the last preparation, or 0, and what it was for
  withdrawal,  \* a signed withdrawal is kept
  busy,        \* the request waited for, a signature, or None
  flying,      \* requests not handled yet
  intents,     \* the service: intents prepared, void once expired, overtaken or out of date
  made,        \* versions published, or drafts made, under their keys
  withdrawn,   \* the version shown by the catalog is withdrawn
  told,        \* keys whose success was shown
  forgot,      \* keys let go of though a request under them may have been done
  keys,        \* keys made
  lost         \* answers lost, requests turned away, dialogs left

page == <<dialog, content, review, key, prepareKey, withdrawal, busy>>
service == <<intents, made, withdrawn>>
vars == <<page, flying, service, told, forgot, keys, lost>>

NoKey == [key |-> 0, content |-> None]
Request(for, k, about) == [for |-> for, key |-> k, about |-> about]
Signing == Request("sign", 0, None)
Waiting(r) == busy = r
Known(s, k) == \E i \in DOMAIN s : s[i].key = k

Init ==
  /\ dialog \in {"publisher", "catalog"} /\ content \in Contents /\ review = 0 /\ key = 0 /\ prepareKey = NoKey
  /\ withdrawal = FALSE /\ busy = None /\ flying = {} /\ intents = <<>> /\ made = <<>> /\ withdrawn = FALSE
  /\ told = {} /\ forgot = {} /\ keys = 0 /\ lost = 0

\* A request is sent, and waited for.
Send(r) == busy' = r /\ flying' = flying \cup {r}

(***************************************************************************)
(* The fields.  They are locked while a version is under review, or while  *)
(* a draft may have been made of what they hold.                           *)
(***************************************************************************)
Edit(c) ==
  /\ busy = None /\ review = 0 /\ (dialog = "catalog" => key = 0) /\ dialog # "done" /\ content' = c
  /\ UNCHANGED <<dialog, review, key, prepareKey, withdrawal, busy, flying, service, told, forgot, keys, lost>>

(***************************************************************************)
(* Publishing                                                              *)
(***************************************************************************)
\* A preparation repeated for the same entries has the same key.
Changed(old) == old.key = 0 \/ old.content # content

PrepareReview ==
  /\ dialog = "publisher" /\ busy = None /\ review = 0
  /\ LET k == IF Changed(prepareKey) THEN keys + 1 ELSE prepareKey.key
     IN /\ k <= MaxKeys /\ keys' = IF k > keys THEN k ELSE keys
        /\ prepareKey' = [key |-> k, content |-> content] /\ Send(Request("prepare", k, content))
  /\ UNCHANGED <<dialog, content, review, key, withdrawal, service, told, forgot, lost>>

Clear == review' = 0 /\ key' = 0 /\ prepareKey' = NoKey

Publish ==
  /\ dialog = "publisher" /\ busy = None /\ review # 0
  /\ IF key # 0 THEN Send(Request("publish", key, review)) /\ UNCHANGED <<review, key, prepareKey>>
     ELSE IF intents[review].void THEN Clear /\ UNCHANGED <<busy, flying>>
     ELSE busy' = Signing /\ UNCHANGED <<flying, review, key, prepareKey>>
  /\ UNCHANGED <<dialog, content, withdrawal, service, told, forgot, keys, lost>>

BackToEditing ==
  /\ dialog = "publisher" /\ busy = None /\ review # 0 /\ key = 0 /\ Clear
  /\ UNCHANGED <<dialog, content, withdrawal, busy, flying, service, told, forgot, keys, lost>>

(***************************************************************************)
(* Making a draft of a version, and withdrawing one                        *)
(***************************************************************************)
Apply ==
  /\ dialog = "catalog" /\ busy = None
  /\ LET k == IF key = 0 THEN keys + 1 ELSE key
     IN /\ k <= MaxKeys /\ keys' = IF k > keys THEN k ELSE keys
        /\ key' = k /\ Send(Request("apply", k, content))
  /\ UNCHANGED <<dialog, content, review, prepareKey, withdrawal, service, told, forgot, lost>>

Withdraw ==
  /\ dialog = "catalog" /\ busy = None /\ key = 0 /\ ~withdrawn
  /\ IF withdrawal THEN Send(Request("withdraw", 0, None)) ELSE busy' = Signing /\ UNCHANGED flying
  /\ UNCHANGED <<dialog, content, review, key, prepareKey, withdrawal, service, told, forgot, keys, lost>>

\* A signature is kept with its key until the request is answered.
Sign ==
  /\ busy = Signing
  /\ IF dialog = "publisher"
     THEN keys < MaxKeys /\ keys' = keys + 1 /\ key' = keys + 1 /\ UNCHANGED withdrawal
          /\ Send(Request("publish", keys + 1, review))
     ELSE withdrawal' = TRUE /\ Send(Request("withdraw", 0, None)) /\ UNCHANGED <<key, keys>>
  /\ UNCHANGED <<dialog, content, review, prepareKey, service, told, forgot, lost>>

RefuseToSign ==
  /\ busy = Signing /\ busy' = None
  /\ UNCHANGED <<dialog, content, review, key, prepareKey, withdrawal, flying, service, told, forgot, keys, lost>>

(***************************************************************************)
(* The service.  A key that was answered is answered the same again.       *)
(***************************************************************************)
VoidIntent ==
  /\ \E i \in DOMAIN intents : ~intents[i].void /\ intents' = [intents EXCEPT ![i].void = TRUE]
  /\ UNCHANGED <<page, flying, made, withdrawn, told, forgot, keys, lost>>

WithdrawElsewhere ==
  /\ dialog = "catalog" /\ ~withdrawn /\ withdrawn' = TRUE
  /\ UNCHANGED <<page, flying, intents, made, told, forgot, keys, lost>>

Done(r) ==
  CASE r.for = "prepare" -> /\ intents' = IF Known(intents, r.key) THEN intents
                                          ELSE Append(intents, [key |-> r.key, content |-> r.about, void |-> FALSE])
                            /\ UNCHANGED <<made, withdrawn>>
    [] r.for = "withdraw" -> withdrawn' = TRUE /\ UNCHANGED <<intents, made>>
    [] OTHER -> /\ made' = IF Known(made, r.key) THEN made ELSE Append(made, [key |-> r.key, about |-> r.about])
                /\ UNCHANGED <<intents, withdrawn>>
Refuses(r) == /\ ~Known(made, r.key)
              /\ (r.for = "publish" => intents[r.about].void) /\ (r.for = "apply" => withdrawn)
              /\ r.for \in {"publish", "apply"}

\* What the dialog does with a success, when it still waits for it.
Shows(r) ==
  /\ busy' = None /\ told' = IF r.key # 0 THEN told \cup {r.key} ELSE told
  /\ CASE r.for = "prepare" ->
            LET i == CHOOSE j \in DOMAIN intents' : intents'[j].key = r.key
            IN /\ review' = IF intents'[i].void THEN 0 ELSE i
               /\ prepareKey' = IF intents'[i].void THEN NoKey ELSE prepareKey
               /\ UNCHANGED <<dialog, key, withdrawal>>
       [] r.for = "publish" -> dialog' = "done" /\ Clear /\ UNCHANGED withdrawal
       [] r.for = "withdraw" -> withdrawal' = FALSE /\ UNCHANGED <<dialog, review, key, prepareKey>>
       \* The draft is opened, which may fail: then the dialog stays.
       [] OTHER -> dialog' \in {"catalog", "done"} /\ key' = 0 /\ UNCHANGED <<review, prepareKey, withdrawal>>

Handle(r) ==
  /\ flying' = flying \ {r} /\ ~Refuses(r) /\ Done(r)
  /\ IF Waiting(r) THEN Shows(r) ELSE UNCHANGED <<dialog, review, key, prepareKey, withdrawal, busy, told>>
  /\ UNCHANGED <<content, forgot, keys, lost>>

\* A conflict says what a repetition under the same key would be told: the key is let go.
Refuse(r) ==
  /\ flying' = flying \ {r} /\ Refuses(r)
  /\ IF Waiting(r)
     THEN busy' = None /\ (IF r.for = "publish" THEN Clear ELSE key' = 0 /\ UNCHANGED <<review, prepareKey>>)
     ELSE UNCHANGED <<busy, review, key, prepareKey>>
  /\ UNCHANGED <<dialog, content, withdrawal, service, told, forgot, keys, lost>>

(***************************************************************************)
(* What goes wrong on the way                                              *)
(***************************************************************************)
\* The answer is lost: the request may have been done, or be done yet, or be lost as well.
GiveUp(r) ==
  /\ Waiting(r) /\ lost < MaxLost /\ lost' = lost + 1 /\ busy' = None
  /\ flying' \in {flying, flying \ {r}}
  /\ UNCHANGED <<dialog, content, review, key, prepareKey, withdrawal, service, told, forgot, keys>>

\* Too many requests, refused before the key is looked at.  The catalog lets go of its key
\* whatever the refusal, the publisher only of a conflict.
TurnedAway(r) ==
  /\ Waiting(r) /\ lost < MaxLost /\ lost' = lost + 1 /\ busy' = None /\ flying' = flying \ {r}
  /\ IF r.for = "apply" THEN key' = 0 /\ forgot' = forgot \cup {key} ELSE UNCHANGED <<key, forgot>>
  /\ UNCHANGED <<dialog, content, review, prepareKey, withdrawal, service, told, keys>>

\* The dialog goes, with what it kept, and is opened afresh.
Reopened ==
  /\ dialog # "done" /\ lost < MaxLost /\ lost' = lost + 1 /\ content' \in Contents
  /\ busy' = None /\ review' = 0 /\ key' = 0 /\ prepareKey' = NoKey /\ withdrawal' = FALSE
  /\ forgot' = forgot \cup ({key} \ {0})

Close == Reopened /\ UNCHANGED <<dialog, flying, service, told, keys>>

\* The session ended: the page around the dialog goes back to signing in.
SignedOut(r) == Waiting(r) /\ flying' = flying \ {r} /\ Reopened /\ UNCHANGED <<dialog, service, told, keys>>

Next ==
  \/ PrepareReview \/ Publish \/ BackToEditing \/ Apply \/ Withdraw \/ Sign \/ RefuseToSign
  \/ VoidIntent \/ WithdrawElsewhere \/ Close
  \/ \E c \in Contents : Edit(c)
  \/ \E r \in flying : Handle(r) \/ Refuse(r) \/ GiveUp(r) \/ TurnedAway(r) \/ SignedOut(r)

Spec == Init /\ [][Next]_vars

(***************************************************************************)
(* What holds                                                              *)
(***************************************************************************)
Requests == [for : {"prepare", "publish", "apply", "withdraw", "sign"}, key : 0 .. MaxKeys,
             about : Contents \cup (0 .. MaxKeys) \cup {None}]
TypeOK ==
  /\ dialog \in {"publisher", "catalog", "done"} /\ content \in Contents /\ review \in 0 .. Len(intents)
  /\ key \in 0 .. keys /\ keys \in 0 .. MaxKeys /\ lost \in 0 .. MaxLost /\ told \subseteq 1 .. MaxKeys
  /\ prepareKey.key \in 0 .. keys /\ flying \subseteq Requests /\ busy \in Requests \cup {None}
  /\ {withdrawal, withdrawn} \subseteq BOOLEAN /\ forgot \subseteq 1 .. MaxKeys

\* Whatever was published, and every draft made of a version, the dialog has shown, or it still
\* holds the key that will show it: nothing is made twice over a lost answer.  The exceptions are
\* the keys let go of: by a dialog that is closed or whose session ended before the answer, and
\* by the catalog when a repetition is turned away before its key is looked at.
NothingMadeUnseen == \A i \in DOMAIN made : made[i].key \in told \cup {key} \cup forgot

\* A provider's review is of what is entered, and one version is published of it.
ReviewIsOfEntries ==
  /\ review # 0 => intents[review].content = content
  /\ \A i, j \in DOMAIN made : made[i].about = made[j].about => i = j \/ made[i].about \in Contents
=============================================================================
