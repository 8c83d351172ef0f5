----------------------------- MODULE AuthPolicyFile -----------------------------
(***************************************************************************)
(* policy.json: its parser, its printer, and the helper that loads the     *)
(* file, changes one entry and writes it again.                            *)
(*                                                                         *)
(* The file is a sequence of tokens.  Spaces between tokens are left out,  *)
(* the parser skips them before every token it expects; "bad" is a token   *)
(* no JSON of this schema has (an escape or a control byte in a string, a  *)
(* stray byte), "eof" the end of the bytes.  A file nobody has read yet is *)
(* Unread: its tokens are chosen when the parser reaches them, so that the *)
(* parser is run on every file up to its first error.                      *)
(***************************************************************************)
EXTENDS Naturals, SequencesExt, TLC

CONSTANTS
    MAX_POLICY_TOKENS,  \* stands for MAX_POLICY_BYTES
    MaxSets,            \* bound of the model: calls of the helper
    Unread

AuthTargets == {"sddm", "plasma-lock"}
Modes == {"off", "on-activity", "manual"}

(* What str::parse::<u32> makes of the numerals, and u32::to_string.  Every *)
(* other text, "4294967296" for one, is no u32.                             *)
parse_u32 == "0" :> 0 @@ "1000" :> 1000 @@ "01000" :> 1000 @@ "+1000" :> 1000 @@ "1001" :> 1001
to_string == 0 :> "0" @@ 1000 :> "1000" @@ 1001 :> "1001"
Uids == {1000, 1001}

Strings == {"version", "users", "other"} \cup AuthTargets \cup Modes \cup DOMAIN parse_u32
Numbers == {"1 number", "2 number", "01 number"}
Tokens == {"{", "}", ":", ",", "bad", "eof"} \cup Strings \cup Numbers

VARIABLES
    file,   \* the tokens of policy.json, or Unread
    text,   \* what the parser has consumed of them
    parser, \* its state: the function it is in, the point there, its locals
    meant,  \* the modes the file should hold, once the helper has written it
    sets    \* calls of the helper

vars == <<file, text, parser, meant, sets>>

Empty == << >>
Put(f, k, v) == k :> v @@ f
Without(f, k) == [x \in DOMAIN f \ {k} |-> f[x]]

Parser == [fn |-> "policy", at |-> "open", first |-> TRUE, key |-> "", uid |-> 0,
           version_seen |-> FALSE, users_seen |-> FALSE, users |-> Empty, targets |-> Empty]

Invalid(p) == [p EXCEPT !.at = "invalid"]
At(p, point) == [p EXCEPT !.at = point]

-----------------------------------------------------------------------------
(* One token of an object, the same in the three parsing functions: what    *)
(* the loop does of its own is the brackets, the commas and the colons; the *)
(* caller supplies what a closing bracket, a key and a colon lead to.       *)
(* Mutant: a comma before the closing bracket passes. *)
ObjectTrailing(p, t, closed, keyed, coloned) ==
    CASE p.at = "open" /\ t = "{" -> [p EXCEPT !.at = "member", !.first = TRUE]
      [] p.at \in {"member", "key"} /\ t = "}" -> closed
      [] p.at = "member" /\ ~p.first /\ t = "," -> At(p, "key")
      [] (IF p.first THEN p.at = "member" ELSE p.at = "key") /\ t \in Strings -> [keyed EXCEPT !.first = FALSE]
      [] p.at = "colon" /\ t = ":" -> coloned
      [] OTHER -> Invalid(p)

Object(p, t, closed, keyed, coloned) ==
    CASE p.at = "open" /\ t = "{" -> [p EXCEPT !.at = "member", !.first = TRUE]
      [] p.at = "member" /\ t = "}" -> closed
      [] p.at = "member" /\ ~p.first /\ t = "," -> At(p, "key")
      [] (IF p.first THEN p.at = "member" ELSE p.at = "key") /\ t \in Strings -> [keyed EXCEPT !.first = FALSE]
      [] p.at = "colon" /\ t = ":" -> coloned
      [] OTHER -> Invalid(p)

(* parse_policy.  Only after the colon is the key looked at; the number has *)
(* no leading zero.                                                         *)
parse_policy(p, t) ==
    IF p.at = "number" THEN IF t = "1 number" THEN At(p, "member") ELSE Invalid(p)
    ELSE Object(p, t,
        IF p.version_seen /\ p.users_seen THEN At(p, "end") ELSE Invalid(p),
        [At(p, "colon") EXCEPT !.key = t],
        CASE p.key = "version" /\ ~p.version_seen -> [At(p, "number") EXCEPT !.version_seen = TRUE]
          [] p.key = "users" /\ ~p.users_seen -> [At(p, "open") EXCEPT !.fn = "users"]
          [] OTHER -> Invalid(p))

canonical_uid(t) == t \in DOMAIN parse_u32 /\ parse_u32[t] # 0 /\ to_string[parse_u32[t]] = t

parse_users(p, t) ==
    Object(p, t,
        [p EXCEPT !.fn = "policy", !.first = FALSE, !.users_seen = TRUE],
        IF canonical_uid(t) THEN [At(p, "colon") EXCEPT !.uid = parse_u32[t]] ELSE Invalid(p),
        [At(p, "open") EXCEPT !.fn = "targets", !.targets = Empty])

(* parse_targets; a user that was there already is found out when its       *)
(* targets are complete.                                                    *)
parse_targets(p, t) ==
    IF p.at = "mode"
    THEN IF t \in Modes \ {"off"} /\ p.key \notin DOMAIN p.targets
         THEN [At(p, "member") EXCEPT !.targets = Put(@, p.key, t)]
         ELSE Invalid(p)
    ELSE Object(p, t,
        IF p.uid \in DOMAIN p.users THEN Invalid(p)
        ELSE [p EXCEPT !.fn = "users", !.first = FALSE, !.users = Put(@, p.uid, p.targets)],
        IF t \in AuthTargets THEN [At(p, "colon") EXCEPT !.key = t] ELSE Invalid(p),
        At(p, "mode"))

(* parse_json: parse_policy, then nothing more. *)
Consumed(p, t) ==
    CASE p.at = "end" -> IF t = "eof" THEN At(p, "done") ELSE Invalid(p)
      [] p.fn = "policy" -> parse_policy(p, t)
      [] p.fn = "users" -> parse_users(p, t)
      [] p.fn = "targets" -> parse_targets(p, t)

-----------------------------------------------------------------------------
mode_for(users, uid, target) ==
    IF uid \in DOMAIN users /\ target \in DOMAIN users[uid] THEN users[uid][target] ELSE "off"

(* Mutant: the user goes with the first target that is switched off. *)
set_mode_user(users, uid, target, mode) ==
    IF mode = "off" THEN Without(users, uid)
    ELSE Put(users, uid, Put(IF uid \in DOMAIN users THEN users[uid] ELSE Empty, target, mode))

set_mode(users, uid, target, mode) ==
    LET targets == IF uid \in DOMAIN users THEN users[uid] ELSE Empty
        left == Without(targets, target)
    IN  IF mode # "off" THEN Put(users, uid, Put(targets, target, mode))
        ELSE IF left = Empty THEN Without(users, uid)
        ELSE Put(users, uid, left)

(* "{" members with commas between them "}". *)
Braces(members) ==
    <<"{">> \o FlattenSeq([i \in DOMAIN members |-> IF i = 1 THEN members[i] ELSE <<",">> \o members[i]])
            \o <<"}">>

(* to_json, in the order of the two BTreeMaps. *)
to_json(users) ==
    LET entries(targets) == SelectSeq(<<"sddm", "plasma-lock">>, LAMBDA t : t \in DOMAIN targets)
        object(targets) == Braces([i \in DOMAIN entries(targets) |->
                               <<entries(targets)[i], ":", targets[entries(targets)[i]]>>])
        uids == SetToSortSeq(DOMAIN users, <)
    IN  Braces(<< <<"version", ":", "1 number">>,
                  <<"users", ":">> \o Braces([i \in DOMAIN uids |->
                       <<to_string[uids[i]], ":">> \o object(users[uids[i]])]) >>)

-----------------------------------------------------------------------------
Init ==
    /\ file = Unread /\ text = << >> /\ parser = Parser
    /\ meant = Unread /\ sets = 0

Reading == parser.at \notin {"done", "invalid"}

(* The next token, of the file as it is or of one not read before. *)
Next_token ==
    IF file = Unread THEN IF Len(text) < MAX_POLICY_TOKENS THEN Tokens ELSE {"eof"}
    ELSE IF Len(text) < Len(file) THEN {file[Len(text) + 1]} ELSE {"eof"}

Parse(t) ==
    /\ Reading
    /\ t \in Next_token
    /\ parser' = Consumed(parser, t)
    /\ text' = Append(text, t)
    /\ file' = IF file = Unread /\ parser'.at = "done" THEN text ELSE file
    /\ UNCHANGED <<meant, sets>>

(* kfaceauth-policy --set, when both loads gave this policy: nothing to do, *)
(* or the changed policy is written.  The next load refuses a file that is  *)
(* too long before it parses it.                                            *)
Set(uid, target, mode) ==
    /\ parser.at = "done" /\ sets < MaxSets
    /\ ~(mode = "off" /\ mode_for(parser.users, uid, target) = "off")
    /\ sets' = sets + 1
    /\ LET old == [u \in Uids |-> [t \in AuthTargets |-> mode_for(parser.users, u, t)]]
       IN  meant' = [old EXCEPT ![uid][target] = mode]
    /\ file' = to_json(set_mode(parser.users, uid, target, mode))
    /\ text' = << >>
    /\ parser' = IF Len(file') > MAX_POLICY_TOKENS THEN Invalid(Parser) ELSE Parser

Next ==
    \/ \E t \in Tokens : Parse(t)
    \/ \E uid \in Uids, target \in AuthTargets, mode \in Modes : Set(uid, target, mode)

Spec == Init /\ [][Next]_vars

-----------------------------------------------------------------------------
(* The schema, as the set of its documents: every object with its members   *)
(* in every order, and the policy it stands for.                            *)
TargetDocuments ==
    UNION {{ [text |-> Braces([i \in DOMAIN o |-> <<o[i], ":", f[o[i]]>>]), value |-> f] :
                 o \in SetToSeqs(S), f \in [S -> Modes \ {"off"}] } : S \in SUBSET AuthTargets}

UserDocuments ==
    UNION {{ [text |-> Braces([i \in DOMAIN o |-> <<to_string[o[i]], ":">> \o f[o[i]].text]),
              value |-> [u \in S |-> f[u].value]] :
                 o \in SetToSeqs(S), f \in [S -> TargetDocuments] } : S \in SUBSET Uids}

Documents ==
    UNION {{ [text |-> Braces(<<m, <<"users", ":">> \o u.text>>) \o <<"eof">>, value |-> u.value],
             [text |-> Braces(<< <<"users", ":">> \o u.text, m>>) \o <<"eof">>, value |-> u.value] } :
                 u \in UserDocuments, m \in {<<"version", ":", "1 number">>}}

Begun == UNION {Prefixes(d.text) : d \in Documents}

(* The parser is at one of its points, and the users it has read are       *)
(* eligible ones, with modes the file may hold.                             *)
TypeOK ==
    /\ parser.fn \in {"policy", "users", "targets"}
    /\ parser.at \in {"open", "member", "key", "colon", "number", "mode", "end", "done", "invalid"}
    /\ DOMAIN parser.users \subseteq Uids
    /\ \A u \in DOMAIN parser.users :
          parser.users[u] \in UNION {[S -> Modes \ {"off"}] : S \in SUBSET AuthTargets}
    /\ sets \in 0..MaxSets

Decides(documents, begun) ==
    /\ parser.at = "done" => [text |-> text, value |-> parser.users] \in documents
    /\ parser.at = "invalid" /\ text # << >> => text \notin begun

(* parse_json decides the schema: what it accepts is a document and the     *)
(* policy it returns is the one the document stands for, and where it stops *)
(* with an error no document begins with what it has read.                  *)
ParserDecides == Decides(Documents, Begun)

(* Every policy file the helper writes loads again, with the one mode it    *)
(* was asked to change changed and every other mode as it was.              *)
WrittenLoads ==
    meant # Unread =>
        /\ parser.at # "invalid"
        /\ parser.at = "done" =>
              \A u \in Uids, t \in AuthTargets : mode_for(parser.users, u, t) = meant[u][t]

-----------------------------------------------------------------------------
(* Statements of the repository that the code does not keep.               *)

(* "Changes one target without changing another user's or target's policy": *)
(* as the attempts that follow find the modes, when a file that cannot be   *)
(* loaded grants nobody anything.  Files that outgrow the reader break it.  *)
OthersKeepModes ==
    meant # Unread /\ ~Reading =>
        \A u \in Uids, t \in AuthTargets :
            (IF parser.at = "done" THEN mode_for(parser.users, u, t) ELSE "off") = meant[u][t]
====
