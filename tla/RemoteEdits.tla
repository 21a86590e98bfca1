---------------------------- MODULE RemoteEdits ----------------------------
(***************************************************************************)
(* Drafts, and the commands that read an object of the account, change it  *)
(* and write it back: "grw mail vacation" (whole settings, no version),    *)
(* "calendar rsvp" and "calendar color" (a list of attendees, one field)   *)
(* and "grw contacts update" (a field mask and an etag).  Other clients    *)
(* write the same objects.                                                 *)
(***************************************************************************)
EXTENDS Drafts

CONSTANTS
    Self,          \* the user as an attendee
    VacationArgs,  \* flags of "vacation update" as functions from fields to values
    WebVacations,  \* settings other clients make
    Guests,        \* attendee lists other clients make
    Responses,     \* answers to an invitation
    ContactArgs,   \* flags of "contacts update", as VacationArgs; 0 is empty
    WebContacts    \* contacts as other clients leave them

VARIABLES
    vacation,  \* the responder: on, contacts, subject, plain, html, start, end
    event,     \* attendees: a function to answers, and color
    contact    \* given, family, phonetic, org, title, more, email, etag

objects == <<vacation, event, contact>>
vars == <<draftVars, objects>>

VacationField == {"on", "contacts", "subject", "plain", "html", "start", "end"}

(* A name is its parts and how they sound; the display name is Google's.   *)
(* "more" is the organizations of a contact after its first.               *)
NameField == {"given", "family", "phonetic"}
OrgField == {"org", "title", "more"}
ContactField == NameField \cup OrgField \cup {"email"}
Derived == {"phonetic", "more"}

ResponseStatus == {"needsAction", "accepted", "declined", "tentative"}

Responder == [on : BOOLEAN, contacts : BOOLEAN, subject : Nat, plain : Nat, html : Nat,
              start : Nat, end : Nat]
Guestlist == UNION {[guests -> ResponseStatus] : guests \in SUBSET Who}
Contact == [ContactField \cup {"etag"} -> Nat]

(* The commands that hold a copy of an object before they write it.        *)
OnVacation == {"update", "toggle"}
OnEvent == {"rsvp"}
OnContact == {"contact"}

ASSUME EditsAssumption ==
    /\ None \notin OnVacation \cup OnEvent \cup OnContact
    /\ Self \in Who
    /\ WebVacations \subseteq Responder
    /\ \A a \in VacationArgs :
          /\ DOMAIN a \subseteq VacationField \ {"on", "html"}
          /\ \A f \in DOMAIN a : a[f] \in IF f = "contacts" THEN BOOLEAN ELSE Nat
    /\ Guests \subseteq Guestlist
    /\ Responses \subseteq ResponseStatus
    /\ WebContacts \subseteq [ContactField -> Nat]
    /\ \A a \in ContactArgs :
          /\ DOMAIN a \subseteq ContactField \ Derived
          /\ a \in [DOMAIN a -> Nat]
          /\ "email" \in DOMAIN a => a.email # 0

(* An object with the fields that are set, and its own for the others.     *)
Over(set, object) ==
    [f \in DOMAIN set \cup DOMAIN object |-> IF f \in DOMAIN set THEN set[f] ELSE object[f]]

Init ==
    /\ DraftInit
    /\ vacation \in WebVacations
    /\ event \in [attendees : Guests, color : {0}]
    /\ contact \in {Over([etag |-> 0], c) : c \in WebContacts}

(* Fields of an object that differ.                                        *)
Changed(old, new) == {f \in DOMAIN old \cup DOMAIN new :
                        f \notin DOMAIN old \cap DOMAIN new \/ old[f] # new[f]}

(* Invocation p, or another client (None), changes fields: p ends, and     *)
(* those that hold a copy note it (history).                               *)
Write(ops, p, fields) ==
    run' = [q \in Proc |->
              IF q = p THEN Idle
              ELSE IF run[q].op \in ops THEN [run[q] EXCEPT !.since = @ \cup fields] ELSE run[q]]

(* A copy is read; nothing has changed since.                              *)
Read(p, copy, label) ==
    /\ run' = [run EXCEPT ![p].got = copy, ![p].since = {}, ![p].pc = label]
    /\ UNCHANGED <<mailbox, counts, objects>>

Refuse(p) == End(p) /\ UNCHANGED <<mailbox, counts, objects>>

-----------------------------------------------------------------------------
(* grw mail vacation update and enable, disable; the argument is           *)
(* [set, dry].                                                             *)

Ordered(start, end) == start = 0 \/ end = 0 \/ start < end
Or(a, f, value) == IF f \in DOMAIN a THEN a[f] ELSE value

UpdateFirst(a) ==
    IF DOMAIN a.set = {} \/ ~Ordered(Or(a.set, "start", 0), Or(a.set, "end", 0)) \/ a.dry THEN "idle" ELSE "get"

GetVacation(p) ==
    /\ run[p].op \in OnVacation /\ run[p].pc = "get"
    /\ Read(p, vacation, "put")

(* A new body replaces the HTML body, which would win over it.             *)
Vacation(p) ==
    LET set == run[p].arg.set
    IN  Over(set, IF "plain" \in DOMAIN set THEN [run[p].got EXCEPT !.html = 0] ELSE run[p].got)

VacationFits(p) == run[p].op = "update" => Ordered(Vacation(p).start, Vacation(p).end)

(* Mutant: no forced fields: FALSE is left out of the request, and stays.  *)
PutVacationUnforced(p) ==
    /\ run[p].op \in OnVacation /\ run[p].pc = "put"
    /\ VacationFits(p)
    /\ vacation' = [f \in VacationField |->
                      IF f \in {"on", "contacts"} /\ ~Vacation(p)[f] THEN vacation[f] ELSE Vacation(p)[f]]
    /\ Write(OnVacation, p, Changed(vacation, vacation')) /\ Answered
    /\ UNCHANGED <<mailbox, event, contact>>

PutVacation(p) ==
    /\ run[p].op \in OnVacation /\ run[p].pc = "put"
    /\ VacationFits(p)
    /\ vacation' = Vacation(p)
    /\ Write(OnVacation, p, Changed(vacation, vacation')) /\ Answered
    /\ UNCHANGED <<mailbox, event, contact>>

VacationRefused(p) ==
    /\ run[p].op \in OnVacation /\ run[p].pc = "put"
    /\ ~VacationFits(p)
    /\ Refuse(p)

-----------------------------------------------------------------------------
(* calendar rsvp and calendar color; the argument is [set, dry], where set *)
(* is the answer or the color.                                             *)

GetEvent(p) ==
    /\ At(p, "rsvp", "get")
    /\ IF Self \in DOMAIN event.attendees THEN Read(p, event.attendees, "put") ELSE Refuse(p)

(* Mutant: the list that is sent holds the answer and no other guest.      *)
AnswerAlone(p) == [self \in {Self} |-> run[p].arg.set]

Answer(p) == [run[p].got EXCEPT ![Self] = run[p].arg.set]

(* Patch replaces a list as a whole, and leaves other fields alone.        *)
PatchAttendees(p) ==
    /\ At(p, "rsvp", "put")
    /\ event' = [event EXCEPT !.attendees = Answer(p)]
    /\ Write(OnEvent, p, Changed(event.attendees, event'.attendees)) /\ Answered
    /\ UNCHANGED <<mailbox, vacation, contact>>

PatchColor(p) ==
    /\ At(p, "color", "put")
    /\ event' = [event EXCEPT !.color = run[p].arg.set]
    /\ Write({}, p, {}) /\ Answered
    /\ UNCHANGED <<mailbox, vacation, contact>>

-----------------------------------------------------------------------------
(* grw contacts update; the argument is [set, dry].                        *)

ContactFirst(a) == IF DOMAIN a.set = {} \/ a.dry THEN "idle" ELSE "get"

GetContact(p) == At(p, "contact", "get") /\ Read(p, contact, "put")

(* An empty flag sets nothing.                                             *)
Named(p) == {f \in DOMAIN run[p].arg.set : run[p].arg.set[f] # 0}

(* PersonUpdateMask: whole groups of fields.                               *)
Mask(p) == UNION {g \in {NameField, OrgField, {"email"}} : g \cap Named(p) # {}}

(* What is named goes over the name and the first organization that were   *)
(* read.  How the old name sounds and the other organizations are dropped. *)
Merged(p) ==
    [f \in Mask(p) |-> IF f \in Named(p) THEN run[p].arg.set[f]
                       ELSE IF f \in Derived THEN 0 ELSE run[p].got[f]]

(* Mutant: the request is built without what was read, etag included.      *)
EtagFitsAlways(p) == TRUE

(* The service refuses an etag that is not the contact's, and a request    *)
(* that names no group.                                                    *)
EtagFits(p) == run[p].got.etag = contact.etag

PutContact(p) ==
    /\ At(p, "contact", "put")
    /\ Mask(p) # {} /\ EtagFits(p)
    /\ contact' = Over(Merged(p), [contact EXCEPT !.etag = @ + 1])
    /\ Write(OnContact, p, Changed(contact, contact')) /\ Answered
    /\ UNCHANGED <<mailbox, vacation, event>>

ContactRefused(p) ==
    /\ At(p, "contact", "put")
    /\ Mask(p) = {} \/ ~EtagFits(p)
    /\ Refuse(p)

-----------------------------------------------------------------------------
(* Other clients of the account.                                           *)

WebVacation ==
    /\ WebEdits
    /\ vacation' \in WebVacations \ {vacation}
    /\ Write(OnVacation, None, Changed(vacation, vacation'))
    /\ UNCHANGED <<mailbox, event, contact>>

WebEvent ==
    /\ WebEdits
    /\ \E g \in Guests \ {event.attendees} : event' = [event EXCEPT !.attendees = g]
    /\ Write(OnEvent, None, Changed(event.attendees, event'.attendees))
    /\ UNCHANGED <<mailbox, vacation, contact>>

WebContact ==
    /\ WebEdits
    /\ \E c \in WebContacts : contact' = Over([etag |-> contact.etag + 1], c)
    /\ Write(OnContact, None, Changed(contact, contact'))
    /\ UNCHANGED <<mailbox, vacation, event>>

EditStep(p) ==
    \/ GetVacation(p) \/ PutVacation(p) \/ VacationRefused(p)
    \/ GetEvent(p) \/ PatchAttendees(p) \/ PatchColor(p)
    \/ GetContact(p) \/ PutContact(p) \/ ContactRefused(p)

Args(sets) == [set : sets, dry : BOOLEAN]
Go(a, label) == IF a.dry THEN "idle" ELSE label

StartEdit(p) ==
    /\ \/ \E a \in Args(VacationArgs) : Start(p, "update", a, UpdateFirst(a))
       \/ \E a \in Args([on : BOOLEAN]) : Start(p, "toggle", a, Go(a, "get"))
       \/ \E a \in Args(Responses) : Start(p, "rsvp", a, Go(a, "get"))
       \/ \E a \in Args({1}) : Start(p, "color", a, Go(a, "put"))
       \/ \E a \in Args(ContactArgs) : Start(p, "contact", a, ContactFirst(a))
    /\ UNCHANGED <<mailbox, objects>>

Next ==
    \/ \E p \in Proc :
          \/ StartDraft(p) /\ UNCHANGED objects
          \/ StartSend(p) /\ UNCHANGED objects
          \/ DraftStep(p) /\ UNCHANGED objects
          \/ StartEdit(p) \/ EditStep(p)
          \/ Stop(p) /\ UNCHANGED <<mailbox, objects>>
    \/ WebDraft /\ UNCHANGED objects
    \/ WebVacation \/ WebEvent \/ WebContact

Spec == Init /\ [][Next]_vars

-----------------------------------------------------------------------------
(* Properties.                                                             *)

EditRun(ops, sets, copies, fields) ==
    {r \in [pc : {"get", "put"}, op : ops, arg : Args(sets), src : {None}, parent : {0},
            self : {{}}, shown : {None}, got : copies \cup {None}, since : SUBSET fields] :
        r.pc = "put" => r.got \in copies}

UpdateRun == EditRun({"update"}, VacationArgs, Responder, VacationField)
ToggleRun == EditRun({"toggle"}, [on : BOOLEAN], Responder, VacationField)
RsvpRun == EditRun({"rsvp"}, Responses, {g \in Guestlist : Self \in DOMAIN g}, Who)
ColorRun == EditRun({"color"}, {1}, {None}, {})
ContactRun == EditRun({"contact"}, ContactArgs, Contact, ContactField \cup {"etag"})

Invocation ==
    {Idle} \cup DraftRun \cup SendRun \cup UpdateRun \cup ToggleRun \cup RsvpRun
           \cup ColorRun \cup ContactRun

(* The types of the state, of every invocation under its command.          *)
TypeOK ==
    /\ DraftTypeOK
    /\ vacation \in Responder
    /\ event \in [attendees : Guestlist, color : Nat]
    /\ contact \in Contact
    /\ run \in [Proc -> Invocation]

(* What a write leaves: each field it names has the value it was given,    *)
(* and each other is as it was, there or not - unless another client       *)
(* changed that field after the invocation read it.  No guest is dropped   *)
(* from a list of attendees, and none is added.  A new text for the        *)
(* responder takes the HTML body with it, which would outrank the text.    *)
AsAsked(p, set, old, new) ==
    /\ DOMAIN set \subseteq DOMAIN new
    /\ \A f \in DOMAIN old \cup DOMAIN new :
          IF f \in DOMAIN set THEN new[f] = set[f]
          ELSE f \in run[p].since \/ f \notin Changed(old, new)

EditsAsAsked ==
    [][\A p \in Proc :
        /\ PutVacation(p) =>
              LET set == run[p].arg.set
              IN  AsAsked(p, IF "plain" \in DOMAIN set THEN Over(set, [html |-> 0]) ELSE set,
                          vacation, vacation')
        /\ PatchAttendees(p) =>
              AsAsked(p, [self \in {Self} |-> run[p].arg.set], event.attendees, event'.attendees)]_vars

(* An update of a contact undoes no change of another client, whenever     *)
(* that was made: what it does not name, or leaves empty, stays as it is   *)
(* at the write, the rest of the name and of the first organization        *)
(* included.  A new name drops how the old one sounds, and a new           *)
(* organization the others of the contact.                                 *)
ContactNeverReverts ==
    [][\A p \in Proc :
        PutContact(p) =>
            LET set == run[p].arg.set
                Says(f) == f \in DOMAIN set /\ set[f] # 0
            IN  /\ \A f \in {"given", "family", "org", "title", "email"} :
                      contact'[f] = IF Says(f) THEN set[f] ELSE contact[f]
                /\ contact'.phonetic =
                      IF Says("given") \/ Says("family") THEN 0 ELSE contact.phonetic
                /\ contact'.more = IF Says("org") \/ Says("title") THEN 0 ELSE contact.more]_vars
=============================================================================
