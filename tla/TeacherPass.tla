---------------------------- MODULE TeacherPass ----------------------------
(***************************************************************************)
(* The teacher surface pass (finetune/teacher.py and the lock of           *)
(* finetune/validate.py): every user utterance and every final answer is   *)
(* locked, rewritten by a model that may answer anything, verified,        *)
(* retried once, and kept as it was when both answers are rejected.        *)
(* The preamble and the list lines never reach the teacher: a list line it *)
(* adds, which asserts no title unless it is bold, is a word of the prose. *)
(***************************************************************************)
EXTENDS DatasetValidation

(* Titles and years of the results, and the title and actor slots.         *)
Lockable(conv) ==
    ConvTitles(conv)
    \cup UNION {ResultYears(conv.turns[i].result) : i \in DOMAIN conv.turns}
    \cup {s[2] : s \in {x \in UNION {conv.slots[i] : i \in DOMAIN conv.slots} :
                           x[1] \in {"title", "actor"}}}

(* The distinct spans of a body that are locked; span n gets mark n.  A    *)
(* bold title is locked with its stars.                                    *)
Mapping(body, entities) ==
    SetToSeq({body[i] : i \in {j \in DOMAIN body : body[j].text \in entities}})

LockEntities(body, mapping) ==
    [i \in DOMAIN body |->
        IF \E n \in DOMAIN mapping : mapping[n] = body[i]
        THEN [Word("") EXCEPT !.mark = CHOOSE n \in DOMAIN mapping : mapping[n] = body[i]]
        ELSE body[i]]

(* A mark the teacher has put in bold gives a bold span.                   *)
UnlockEntities(body, mapping) ==
    [i \in DOMAIN body |->
        IF body[i].mark = 0 THEN body[i]
        ELSE LET span == mapping[body[i].mark]
             IN  [text |-> span.text, bold |-> span.bold \/ body[i].bold,
                  dated |-> span.dated, mark |-> 0]]

(* What the teacher may answer to a locked prose.  noise stands for the    *)
(* answers the deterministic checks reject by their form: glued words,     *)
(* a flipped script, a meta leak, a length out of bounds.                  *)
Quirks == {"echo", "prefix", "register", "drop", "twice", "stray", "bold", "embolden",
           "dated", "golden", "silent", "abstain", "listed", "noise"}

Invented == "invented"
ListLine == Word("- and more")
Marked(body) == SelectSeq(body, LAMBDA s : s.mark # 0)

TeacherSays(quirk, text, golden) ==
    CASE quirk = "echo" -> text
      [] quirk = "prefix" -> [text EXCEPT !.body = <<Word("arre")>> \o @]
      [] quirk = "register" ->
             [text EXCEPT !.body = [i \in DOMAIN text.body |->
                 IF text.body[i].mark = 0 THEN [text.body[i] EXCEPT !.text = "yaar"]
                 ELSE text.body[i]]]
      [] quirk = "drop" -> [text EXCEPT !.body = SelectSeq(text.body, LAMBDA s : s.mark # 1)]
      [] quirk = "twice" -> [text EXCEPT !.body = text.body \o Marked(text.body)]
      [] quirk = "stray" -> [text EXCEPT !.body = Append(@, [Word("") EXCEPT !.mark = 9])]
      [] quirk = "bold" -> [text EXCEPT !.body = Append(@, Bold(Invented))]
      [] quirk = "embolden" ->
             [text EXCEPT !.body = [i \in DOMAIN text.body |->
                 IF text.body[i].mark # 0 THEN [text.body[i] EXCEPT !.bold = TRUE]
                 ELSE text.body[i]]]
      [] quirk = "dated" ->
             [text EXCEPT !.body = Append(@, [Word(Invented) EXCEPT !.dated = TRUE])]
      [] quirk = "golden" -> [text EXCEPT !.body = Marked(@) \o Words(golden)]
      [] quirk = "silent" -> [text EXCEPT !.nomatch = FALSE]
      [] quirk = "abstain" -> [text EXCEPT !.nomatch = TRUE]
      [] quirk = "listed" -> [text EXCEPT !.body = Append(@, ListLine)]
      [] quirk = "noise" -> [text EXCEPT !.noise = TRUE]

Occurs(n, body) == Cardinality({i \in DOMAIN body : body[i].mark = n})

(* Mutant: new bold spans and lost abstentions go unnoticed.               *)
VerifyMarksOnly(original, rewritten, mapping) ==
       {"altered" : n \in {m \in DOMAIN mapping :
                               Occurs(m, original.body) # Occurs(m, rewritten.body)}}
    \cup {"unknown sentinel" : i \in {j \in DOMAIN rewritten.body :
                               rewritten.body[j].mark \notin {0} \cup DOMAIN mapping}}
    \cup {"noise" : x \in {rewritten.noise} \ {FALSE}}

(* The reasons to reject a rewrite.  Spans are counted, not ordered; a bold *)
(* mark is no new bold; an added abstention is not looked at, and neither   *)
(* are added list lines, as the locked prose never has any.                *)
VerifyLocked(original, rewritten, mapping) ==
       {"altered" : n \in {m \in DOMAIN mapping :
                               Occurs(m, original.body) # Occurs(m, rewritten.body)}}
    \cup {"unknown sentinel" : i \in {j \in DOMAIN rewritten.body :
                               rewritten.body[j].mark \notin {0} \cup DOMAIN mapping}}
    \cup {"new bold" : i \in {j \in DOMAIN rewritten.body :
                               rewritten.body[j].bold /\ rewritten.body[j].mark = 0}}
    \cup {"no_match dropped" : x \in {original.nomatch} \ {rewritten.nomatch, FALSE}}
    \cup {"noise" : x \in {rewritten.noise} \ {FALSE}}

(* Lock, teach, verify, once more if rejected, unlock: the new text and    *)
(* whether it was accepted.                                                *)
RewriteOne(text, entities, first, second, golden) ==
    LET mapping == Mapping(text.body, entities)
        locked  == [body |-> LockEntities(text.body, mapping), nomatch |-> text.nomatch,
                    noise |-> FALSE]
        raw(quirk) == TeacherSays(quirk, locked, golden)
        fine(quirk) == VerifyLocked(locked, raw(quirk), mapping) = {}
        final(quirk) == [text EXCEPT !.body = UnlockEntities(raw(quirk).body, mapping),
                                     !.nomatch = raw(quirk).nomatch]
    IN  CASE fine(first) -> [text |-> final(first), accepted |-> TRUE]
          [] ~fine(first) /\ fine(second) -> [text |-> final(second), accepted |-> TRUE]
          [] OTHER -> [text |-> text, accepted |-> FALSE]

Taught(turn) ==
    \/ turn.role = "user"
    \/ turn.role = "assistant" /\ turn.content # NoText /\ turn.calls = <<>>

TeachConv(conv, first, second, golden, stamp) ==
    LET rewrite(i) == RewriteOne(conv.turns[i].content, Lockable(conv), first, second, golden)
    IN  [conv EXCEPT
            !.turns = [i \in DOMAIN conv.turns |->
                IF Taught(conv.turns[i]) THEN [conv.turns[i] EXCEPT !.content = rewrite(i).text]
                ELSE conv.turns[i]],
            !.teacher = stamp]

(* The whole pass, in the order of the input whatever order the workers    *)
(* finish in; faulty is the set of rows the teacher misbehaves on.         *)
SurfacePass(rows, faulty, first, second, golden, stamp) ==
    [i \in DOMAIN rows |->
        IF i \in faulty THEN TeachConv(rows[i], first, second, golden, stamp)
        ELSE TeachConv(rows[i], "echo", "echo", golden, stamp)]
=============================================================================
