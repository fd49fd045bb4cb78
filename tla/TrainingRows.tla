---------------------------- MODULE TrainingRows ----------------------------
(***************************************************************************)
(* The rows TRL trains on (finetune/render.py) and what the training       *)
(* script looks at before it starts (finetune/train_qlora.py).             *)
(*                                                                         *)
(* The loss is taken over the messages the chat template marks.  A mask is *)
(* the set of the positions marked; the two partitions of the rendered     *)
(* text are the messages in it and the others.                             *)
(***************************************************************************)
EXTENDS TeacherPass

(* One message per turn: calls as functions, results as content.           *)
ToTrlMessages(conv) ==
    [i \in DOMAIN conv.turns |->
        LET t == conv.turns[i] IN
        CASE t.role = "assistant" /\ t.calls # <<>> -> [role |-> t.role, calls |-> t.calls]
          [] t.role = "tool" -> [role |-> t.role, result |-> t.result]
          [] OTHER -> [role |-> t.role, content |-> t.content]]
ToTrlRows(rows) == [i \in DOMAIN rows |-> ToTrlMessages(rows[i])]

(* The positions a chat template marks.                                    *)
Templates == {"assistant", "everything", "nothing", "answers", "dialogue", "results"}
Marks(template, messages) ==
    {i \in DOMAIN messages :
        CASE template = "assistant"  -> messages[i].role = "assistant"
          [] template = "everything" -> TRUE
          [] template = "nothing"    -> FALSE
          [] template = "answers"    -> messages[i].role = "assistant" /\ "content" \in DOMAIN messages[i]
          [] template = "dialogue"   -> messages[i].role \in {"assistant", "user"}
          [] template = "results"    -> messages[i].role \in {"assistant", "tool"}}

(* The guard compares texts: a text is in a partition when some message of *)
(* the partition has it.                                                   *)
VerifyMasking(conv, messages, mask) ==
    LET rest == DOMAIN messages \ mask
        said(S, text) == \E i \in S : "content" \in DOMAIN messages[i] /\ messages[i].content = text
        called(S, tool) == \E i \in S : "calls" \in DOMAIN messages[i]
                               /\ \E k \in DOMAIN messages[i].calls : messages[i].calls[k].tool = tool
        shown(S, result) == \E i \in S : "result" \in DOMAIN messages[i] /\ messages[i].result = result
        wrong(t) ==
            \/ /\ t.role = "assistant" /\ t.calls = <<>>
               /\ ~said(mask, t.content) \/ said(rest, t.content)
            \/ t.role = "assistant" /\ \E k \in DOMAIN t.calls : ~called(mask, t.calls[k].tool)
            \/ t.role = "user" /\ (said(mask, t.content) \/ ~said(rest, t.content))
            \/ t.role = "tool" /\ shown(mask, t.result)
    IN  \/ rest = {} \/ mask = {}
        \/ \E i \in DOMAIN conv.turns : wrong(conv.turns[i])

MaskedRight(rows, rendered, template) ==
    \A i \in DOMAIN rows : ~VerifyMasking(rows[i], rendered[i], Marks(template, rendered[i]))

(* The script probes the first row only, and only for a mask that is all   *)
(* ones or all zeros.                                                      *)
PreflightMaskProbe(rendered, template) ==
    Marks(template, rendered[1]) \notin {{}, DOMAIN rendered[1]}
=============================================================================
