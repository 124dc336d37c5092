----------------------------- MODULE RequestNotes -----------------------------
(* Router notes in model requests (src/extensions/serve/request-notes.ts,
   router-tools-note.ts and withEntryNotes of provider.ts), as operators.

   A message is a record whose `anchor` is its identity, or NoAnchor for one
   that has none.  An entry is <<ordinal, anchor>>; the router's own two have a
   negative ordinal.  A note is [anchor, entry, instruction, text]; its text is
   the sequence <<supersede line?, instruction?>>.  A request is a sequence of
   [message, texts]: what the notes add to each message, in order. *)
EXTENDS Integers, Sequences, SequencesExt

NoAnchor == -1
NoInstruction == "none"
ToolsEntry == <<-1, 0>>
RecoveryEntry == <<-2, 0>>
SupersedeNote == "do not follow the earlier notes"
ToolsOn == "the router tools are on"
ToolsOff == "the router tools are off"
RecoveryNote == "read the error again"

LastAnchor(messages) == IF messages = <<>> THEN NoAnchor ELSE Last(messages).anchor
OfEntry(notes, entry) == SelectSeq(notes, LAMBDA n : n.entry = entry)

\* A bug: a note that its entry has superseded leaves its message.
WithRequestNotesMutant(messages, notes) ==
  [i \in DOMAIN messages |->
    [message |-> messages[i],
     texts |-> LET latest == SelectSeq(notes, LAMBDA n :
                     n.anchor = messages[i].anchor /\ n = Last(OfEntry(notes, n.entry)))
               IN [k \in DOMAIN latest |-> latest[k].text]]]

\* Every recorded note on its own message, in record order.
WithRequestNotes(messages, notes) ==
  [i \in DOMAIN messages |->
    [message |-> messages[i],
     texts |-> FlattenSeq([k \in DOMAIN notes |->
                 IF notes[k].anchor # NoAnchor /\ notes[k].anchor = messages[i].anchor
                 THEN <<notes[k].text>> ELSE <<>>])]]

\* A plan: nothing, or a note for the last message (unanchored with NoAnchor).
Plan(messages, entry, instruction, text) ==
  {[anchor |-> LastAnchor(messages), entry |-> entry, instruction |-> instruction, text |-> text]}

\* What this request adds so that the entry's latest note gives the instruction.
PlanRequestNote(notes, messages, entry, instruction) ==
  LET earlier == OfEntry(notes, entry)
      latest == IF earlier = <<>> THEN NoInstruction ELSE Last(earlier).instruction
      text == (IF earlier = <<>> THEN <<>> ELSE <<SupersedeNote>>)
              \o (IF instruction = NoInstruction THEN <<>> ELSE <<instruction>>)
  IN IF latest = instruction THEN {} ELSE Plan(messages, entry, instruction, text)

\* The tools note, again when its message has left the request.
PlanToolsNote(notes, messages, on) ==
  LET wanted == IF on THEN ToolsOn ELSE ToolsOff
      earlier == OfEntry(notes, ToolsEntry)
      given == /\ earlier # <<>> /\ Last(earlier).instruction = wanted
               /\ \E i \in DOMAIN messages : messages[i].anchor = Last(earlier).anchor
  IN IF given THEN {} ELSE Plan(messages, ToolsEntry, wanted, <<wanted>>)

PlanRecoveryNote(messages) == Plan(messages, RecoveryEntry, RecoveryNote, <<RecoveryNote>>)

(* Record every planned note, then add the recorded notes to their messages.
   A note with no anchor, or that the session cannot write (~writable), is
   added to the last message of this request and forgotten. *)
ApplyNotePlans(notes, messages, plans, writable) ==
  LET Kept(p) == p.anchor # NoAnchor /\ writable
      kept == notes \o FlattenSeq([k \in DOMAIN plans |-> IF Kept(plans[k]) THEN <<plans[k]>> ELSE <<>>])
      lost == FlattenSeq([k \in DOMAIN plans |-> IF Kept(plans[k]) THEN <<>> ELSE <<plans[k]>>])
      noted == WithRequestNotes(messages, kept)
      passing == [k \in DOMAIN lost |-> lost[k].text]
  IN [notes |-> kept, recorded |-> lost = <<>>,
      request |-> IF noted = <<>> THEN noted
                  ELSE [noted EXCEPT ![Len(noted)].texts = @ \o passing]]

SeqOfPlan(plan) == IF plan = {} THEN <<>> ELSE <<CHOOSE p \in plan : TRUE>>

\* A routed request: the tools, the entry's instruction, the recovery attempt.
WithEntryNotes(notes, messages, entry, instruction, routed, recovery, writable) ==
  ApplyNotePlans(notes, messages,
    SeqOfPlan(PlanToolsNote(notes, messages, TRUE))
    \o (IF routed THEN SeqOfPlan(PlanRequestNote(notes, messages, entry, instruction)) ELSE <<>>)
    \o (IF recovery THEN SeqOfPlan(PlanRecoveryNote(messages)) ELSE <<>>),
    writable)

\* A request to a concrete model: every note, and the tools are off.
WithConcreteNotes(notes, messages, writable) ==
  ApplyNotePlans(notes, messages, SeqOfPlan(PlanToolsNote(notes, messages, FALSE)), writable)

\* The content the provider sees: each message, then what was added to it.
Content(request) ==
  FlattenSeq([i \in DOMAIN request |->
    LET anchor == request[i].message.anchor
        texts == request[i].texts
    IN <<<<anchor, <<>>>>>> \o [k \in DOMAIN texts |-> <<anchor, texts[k]>>]])
=============================================================================
