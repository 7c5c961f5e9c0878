------------------------------ MODULE Payload ------------------------------
(***************************************************************************)
(* What a request to send turns into: the rows of an API payload, the      *)
(* recipients of the bulk form, and the chunks in which a batch goes to    *)
(* Jasmin's sendbatch.  Sources: messaging/services.py, messaging/forms.py.*)
(* A request that is refused maps to Refused.                              *)
(***************************************************************************)
EXTENDS Integers, SequencesExt

CONSTANTS
  Dialled,        \* numbers as they are typed
  Number,         \* numbers as they are stored: 8 to 15 digits
  Digits,         \* Digits[d]: d without blanks, hyphens and a leading plus
  NoDigits,       \* what is left of a part that is blank
  Text,           \* contents; NoText is a blank one
  ClientId,       \* ids a client puts on its messages
  LongId,         \* those of more than 128 characters
  NoText, NoId, Blank, Absent, Refused,
  SameChunk,      \* JOYCE_SENDBATCH_SAME_CONTENT_CHUNK
  PersonalChunk,  \* JOYCE_SENDBATCH_PERSONALIZED_CHUNK
  MaxRecipients   \* what the bulk form takes

ASSUME PayloadAssumption ==
  /\ DOMAIN Digits = Dialled
  /\ LongId \subseteq ClientId /\ {NoId, Blank} \cap ClientId = {}
  /\ SameChunk \subseteq Nat \ {0} /\ PersonalChunk \subseteq Nat \ {0}
  /\ MaxRecipients \in Nat

-----------------------------------------------------------------------------
(* From a payload to rows.  An entry of messages[], or the payload itself  *)
(* when it has none, is [content, to, id, ids]: to a sequence, Absent if   *)
(* missing; id is client_message_id, NoId if missing, Blank if only blanks *)
(* (which counts as given); ids is client_message_ids, Absent if missing.  *)

\* _clean_client_id, and when it raises.
Clean(id)   == IF id = Blank THEN NoId ELSE id
TooLong(id) == id \in LongId

\* Mutant: one id is put on all the destinations.
IdsOf_ForAll(e) ==
  IF e.ids # Absent THEN e.ids ELSE [i \in DOMAIN e.to |-> e.id]

\* _destinations_with_client_ids: the list of ids goes before the single id.
IdsOf(e) ==
  IF e.ids # Absent THEN e.ids
  ELSE IF e.id # NoId THEN <<e.id>>
  ELSE [i \in DOMAIN e.to |-> NoId]

EntryRefused(e) ==
  \/ e.content = NoText
  \/ e.to = Absent
  \/ e.to # Absent /\ \/ e.to = <<>>
                      \/ Len(IdsOf(e)) # Len(e.to)
                      \/ \E i \in DOMAIN IdsOf(e) : TooLong(IdsOf(e)[i])
                      \/ \E i \in DOMAIN e.to : Digits[e.to[i]] \notin Number

ItemsOf(e) ==
  [i \in DOMAIN e.to |->
     [to |-> Digits[e.to[i]], content |-> e.content, id |-> Clean(IdsOf(e)[i])]]

\* expand_send_payload, of [batch: client_batch_id, messages: its entries].
Expand(p) ==
  IF \/ TooLong(p.batch)
     \/ p.messages = <<>>
     \/ \E k \in DOMAIN p.messages : EntryRefused(p.messages[k])
  THEN Refused
  ELSE FlattenSeq([k \in DOMAIN p.messages |-> ItemsOf(p.messages[k])])

\* Mutant: numbers are compared as they were typed.
Parsed_AsTyped(parts) ==
  LET after[i \in 0..Len(parts)] ==
        IF i = 0 THEN <<>>
        ELSE IF Digits[parts[i]] = NoDigits \/ Contains(SubSeq(parts, 1, i - 1), parts[i])
             THEN after[i - 1] ELSE Append(after[i - 1], Digits[parts[i]])
  IN  after

\* What parse_recipients has collected after each of the parts: one that is empty once
\* cleaned is skipped, a number given again is kept where it came first.
Parsed(parts) ==
  LET after[i \in 0..Len(parts)] ==
        IF i = 0 THEN <<>>
        ELSE LET n == Digits[parts[i]]
             IN  IF n = NoDigits \/ Contains(after[i - 1], n) THEN after[i - 1]
                 ELSE Append(after[i - 1], n)
  IN  after

\* parse_recipients and clean_recipients of the bulk form.
Recipients(parts) ==
  LET once == Parsed(parts)[Len(parts)]
  IN  IF \/ \E i \in DOMAIN parts : Digits[parts[i]] \notin Number \cup {NoDigits}
         \/ once = <<>> \/ Len(once) > MaxRecipients
      THEN Refused ELSE once

-----------------------------------------------------------------------------
(* From rows to chunks: _submit_via_rest.  Rows are their positions in the *)
(* batch; text[i] is the content of row i.  A chunk is the sequence of its *)
(* sendbatch messages, and a message the sequence of its rows.             *)

\* Runs of consecutive rows with the same content, after each row.
Grouped(text) ==
  LET after[i \in 0..Len(text)] ==
        IF i = 0 THEN <<>>
        ELSE LET gs == after[i - 1]
             IN  IF gs # <<>> /\ text[Last(Last(gs))] = text[i]
                 THEN Append(Front(gs), Append(Last(gs), i))
                 ELSE Append(gs, <<i>>)
  IN  after
Groups(text) == Grouped(text)[Len(text)]

\* flush(), of the chunks done and the one being filled.
Flush(st) ==
  IF st.open = <<>> THEN st ELSE [done |-> Append(st.done, st.open), open |-> <<>>]

\* Mutant: the chunk is flushed one row late.
AddSingle_Late(st, i, limit) ==
  LET room == IF Len(st.open) > limit THEN Flush(st) ELSE st
      more == [room EXCEPT !.open = Append(@, <<i>>)]
  IN  IF Len(more.open) > limit THEN Flush(more) ELSE more

\* A row alone in its run goes to the chunk being filled.
AddSingle(st, i, limit) ==
  LET room == IF Len(st.open) + 1 > limit THEN Flush(st) ELSE st
      more == [room EXCEPT !.open = Append(@, <<i>>)]
  IN  IF Len(more.open) >= limit THEN Flush(more) ELSE more

\* Mutant: only whole parts.
Parts_Whole(g, size) ==
  [k \in 1..(Len(g) \div size) |-> SubSeq(g, (k - 1) * size + 1, k * size)]

\* range(0, len(objs), same_chunk)
Parts(g, size) ==
  [k \in 1..((Len(g) + size - 1) \div size) |->
     SubSeq(g, (k - 1) * size + 1, IF k * size < Len(g) THEN k * size ELSE Len(g))]

\* A longer run is cut into chunks of one message each.
AddRun(st, g, size) ==
  LET cut == Parts(g, size)
  IN  [done |-> Flush(st).done \o [k \in DOMAIN cut |-> <<cut[k]>>], open |-> <<>>]

\* The chunks done and the one being filled, after each run.
Filled(groups, size, limit) ==
  LET after[k \in 0..Len(groups)] ==
        IF k = 0 THEN [done |-> <<>>, open |-> <<>>]
        ELSE IF Len(groups[k]) = 1 THEN AddSingle(after[k - 1], groups[k][1], limit)
        ELSE AddRun(after[k - 1], groups[k], size)
  IN  after
Chunks(text, size, limit) ==
  LET groups == Groups(text)
  IN  Flush(Filled(groups, size, limit)[Len(groups)]).done

=============================================================================
