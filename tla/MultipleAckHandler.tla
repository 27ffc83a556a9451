------------------------- MODULE MultipleAckHandler -------------------------
(***************************************************************************)
(* rmqamqp::MultipleAckHandler: turns the acknowledgements an application  *)
(* gave, in whatever order, into as few Basic.Ack and Basic.Nack frames as *)
(* it can.  A frame with the `multiple' bit settles every unsettled tag up *)
(* to its own, so it may only be used while the tags settled so far are an *)
(* initial segment: then as many tags have been processed as the largest   *)
(* of them.                                                                *)
(***************************************************************************)
EXTENDS Naturals, SequencesExt

AckTypes == {"ACK", "REJECT", "REQUEUE"}

(* rmqt::ConsumerAck: the tag of the envelope and the type.  The handler's *)
(* own state is d_totalAcked and d_maxProcessedTag.                        *)
AckFrame(type, tag, multiple) ==
    [type |-> type, tag |-> tag, multiple |-> multiple]

Fresh == [totalAcked |-> 0, maxProcessedTag |-> 0]

(* MultipleAckHandler::sendAck for the pending batch, if there is one      *)
Flush(s) ==
    IF s.length = 0 THEN s.frames
    ELSE Append(s.frames, AckFrame(s.type, s.maxTag, s.length > 1))

(* Whether the next tag continues the segment                              *)
CanBatch(s, tag) ==
    /\ s.totalAcked = s.maxProcessedTag
    /\ tag = s.maxProcessedTag + 1

(* Whether an ack that continues the segment ends the pending batch; the   *)
(* variant mixes the types.                                                *)
NeverCloses(s, ack) == FALSE

Closes(s, ack) == ack.type # s.type

(* The body of the loop in MultipleAckHandler::process                     *)
ProcessOne(s, ack) ==
    LET closed == [s EXCEPT !.frames = Flush(s), !.length = 0, !.maxTag = 0]
        next == IF ~CanBatch(s, ack.tag)
                THEN [closed EXCEPT !.frames =
                        Append(@, AckFrame(ack.type, ack.tag, FALSE))]
                ELSE [(IF Closes(s, ack) THEN closed ELSE s)
                        EXCEPT !.length = @ + 1,
                               !.maxTag = ack.tag,
                               !.type = ack.type]
    IN [next EXCEPT !.totalAcked = @ + 1,
                    !.maxProcessedTag = IF ack.tag > @ THEN ack.tag ELSE @]

(* MultipleAckHandler::process: the frames written for a set of            *)
(* acknowledgements, and the handler's state after them.                   *)
Process(handler, acks) ==
    LET start == [frames |-> <<>>, length |-> 0, maxTag |-> 0, type |-> "ACK",
                  totalAcked |-> handler.totalAcked,
                  maxProcessedTag |-> handler.maxProcessedTag]
        end == FoldLeft(ProcessOne, start,
                        SetToSortSeq(acks, LAMBDA a, b : a.tag < b.tag))
    IN [frames |-> Flush(end),
        handler |-> [totalAcked |-> end.totalAcked,
                     maxProcessedTag |-> end.maxProcessedTag]]

=============================================================================
