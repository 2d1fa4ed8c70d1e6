------------------------------ MODULE CliJson ------------------------------
(***************************************************************************)
(* ob_dump --json <store> <model> [-o <out>]: run_json and its stream      *)
(* callback, over the ob_dump_stream() of Dumper.  The command writes one  *)
(* JSON document while the records arrive and keeps no more than the name  *)
(* of the entity it is in.                                                 *)
(*                                                                         *)
(* file is what has been written so far, as a sequence of JSON tokens:     *)
(* <<"{">>, <<"key", name>>, <<"[">>, <<"value", record>>, <<",">>, ...    *)
(***************************************************************************)
EXTENDS Dumper, SequencesExt

CONSTANTS
  Kept,        \* what the 255 characters of lastEntity keep of a name
  OutMayFail   \* the output file may refuse to open

ASSUME StreamAssumption == "stream" \in Operations

VARIABLES
  cli,    \* "start", "open", "dump" or "exit"
  code,   \* the exit code, once cli is "exit"
  ctx,    \* JsonStreamCtx: lastEntity, wroteAnyEntity, wroteAnyInCurrentEntity
  file    \* the tokens in the output

cliVars == <<cli, code, ctx, file>>
cvars == <<vars, cliVars>>

Punct(s) == [i \in DOMAIN s |-> <<s[i]>>]
NoEntity == ""

-----------------------------------------------------------------------------
(* Mutant: the exit code is ob_dump_stream()'s -1.                         *)
ExitWithRc(c) == cli' = "exit" /\ code' = IF c = 0 THEN 0 ELSE 255

Exit(c) == cli' = "exit" /\ code' = c

(* read_file(model_path): the model is read before the output is opened.   *)
ReadModel ==
  /\ cli = "start"
  /\ \/ cli' = "open" /\ UNCHANGED code
     \/ Exit(1)
  /\ UNCHANGED <<ctx, file, vars>>

(* fopen(out_path, "wb") empties the file, whatever happens later.         *)
OpenOutput ==
  /\ cli = "open"
  /\ \/ /\ Call /\ call'.op = "stream"
        /\ cli' = "dump" /\ file' = <<>> /\ UNCHANGED code
     \/ OutMayFail /\ Exit(1) /\ UNCHANGED <<file, vars>>
  /\ UNCHANGED ctx

-----------------------------------------------------------------------------
(* Mutant: the sense of strcmp.                                            *)
sameEntity(name) == ctx.lastEntity = NoEntity \/ ctx.lastEntity = name

isNewEntity(name) == ctx.lastEntity = NoEntity \/ ctx.lastEntity # name

(* Mutant: a new entity does not reset wroteAnyInCurrentEntity.            *)
CommaAfterKey(rec) ==
  LET closing == IF ~isNewEntity(rec.name) THEN <<>>
                 ELSE IF ctx.wroteAnyEntity THEN Punct(<<"]", ",">>)
                 ELSE Punct(<<"{">>)
      opening == IF isNewEntity(rec.name)
                 THEN << <<"key", rec.name>>, <<"[">> >> ELSE <<>>
      comma   == IF ctx.wroteAnyInCurrentEntity THEN Punct(<<",">>) ELSE <<>>
  IN  closing \o opening \o comma \o << <<"value", rec>> >>

(* The tokens json_stream_cb writes for a record. *)
CbTokens(rec) ==
  LET closing == IF ~isNewEntity(rec.name) THEN <<>>
                 ELSE IF ctx.wroteAnyEntity THEN Punct(<<"]", ",">>)
                 ELSE Punct(<<"{">>)
      opening == IF isNewEntity(rec.name)
                 THEN << <<"key", rec.name>>, <<"[">> >> ELSE <<>>
      comma   == IF ~isNewEntity(rec.name) /\ ctx.wroteAnyInCurrentEntity
                 THEN Punct(<<",">>) ELSE <<>>
  IN  closing \o opening \o comma \o << <<"value", rec>> >>

json_stream_cb ==
  /\ CallbackContinues
  /\ file' = file \o CbTokens(Last(out))
  /\ ctx' = [lastEntity |-> IF isNewEntity(Last(out).name)
                            THEN Kept[Last(out).name] ELSE ctx.lastEntity,
             wroteAnyEntity |-> TRUE,
             wroteAnyInCurrentEntity |-> TRUE]
  /\ UNCHANGED <<cli, code>>

-----------------------------------------------------------------------------
(* Mutant: the result of ob_dump_stream() is not looked at.                *)
CloseAlways ==
  /\ cli = "dump" /\ pc = "idle"
  /\ file' = file \o (IF ctx.wroteAnyEntity THEN Punct(<<"]", "}">>)
                       ELSE Punct(<<"{", "}">>))
  /\ Exit(0)
  /\ UNCHANGED <<ctx, vars>>

(* ob_dump_stream() has returned. *)
CloseDocument ==
  /\ cli = "dump" /\ pc = "idle"
  /\ IF ret.rc = "ok"
     THEN /\ file' = file \o (IF ctx.wroteAnyEntity THEN Punct(<<"]", "}">>)
                              ELSE Punct(<<"{", "}">>))
          /\ Exit(0)
     ELSE /\ UNCHANGED file
          /\ Exit(1)
  /\ UNCHANGED <<ctx, vars>>

CliInit ==
  /\ Init
  /\ cli = "start" /\ code = 0
  /\ ctx = [lastEntity |-> NoEntity, wroteAnyEntity |-> FALSE,
            wroteAnyInCurrentEntity |-> FALSE]
  /\ file = <<>>

(* The steps of the dump that do not involve the command.                  *)
Inside ==
  \/ ParseSchema \/ CreateEnv \/ StatPath \/ OpenEnv \/ BeginTxn \/ OpenDbi
  \/ OpenCursor \/ Skip \/ RecordThrows \/ Deliver \/ Advance \/ EndOfWalk \/ Finish

CliStep ==
  \/ ReadModel \/ OpenOutput \/ json_stream_cb \/ CloseDocument
  \/ Inside /\ UNCHANGED cliVars

CliNext == CliStep \/ (Write /\ UNCHANGED cliVars)

CliSpec == CliInit /\ [][CliNext]_cvars /\ WF_cvars(CliStep)

-----------------------------------------------------------------------------
(* Properties. *)

(* The document a reader of the whole output expects: one group per name,  *)
(* in the order the names first appear.                                    *)
Firsts(records) ==
  {i \in DOMAIN records : \A j \in 1..(i - 1) : records[j].name # records[i].name}

Groups(records) ==
  LET firsts == Ascending(Firsts(records), <)
  IN  [g \in DOMAIN firsts |->
         [name    |-> records[firsts[g]].name,
          records |-> Service!GroupsOf(records)[records[firsts[g]].name]]]

Separated(seqs) ==   \* the members of seqs, separated by commas
  FlattenSeq([i \in DOMAIN seqs |-> (IF i > 1 THEN Punct(<<",">>) ELSE <<>>) \o seqs[i]])

Values(records) == Separated([i \in DOMAIN records |-> << <<"value", records[i]>> >>])

GroupTokens(g) ==
  << <<"key", g.name>>, <<"[">> >> \o Values(g.records) \o Punct(<<"]">>)

Render(groups) ==
  Punct(<<"{">>) \o Separated([i \in DOMAIN groups |-> GroupTokens(groups[i])])
    \o Punct(<<"}">>)

(* The rendering of each database state under each model, in constant form. *)
Whole == [d \in Databases |-> [m \in Models |-> Render(Groups(Document[d][m]))]]

(* What the theorems about the output need of the models: entities of one  *)
(* name are neighbours, as they are where every name is used once, and no  *)
(* name is empty or too long for lastEntity.                               *)
NamesTogether ==
  \A m \in Models : LET known == Parse(m) IN
    \A e, f, g \in DOMAIN known :
      e < f /\ f < g /\ known[e].name = known[g].name => known[f].name = known[e].name
NamesKept ==
  \A m \in Models : LET known == Parse(m) IN
    \A e \in DOMAIN known : known[e].name # NoEntity /\ Kept[known[e].name] = known[e].name

(* The command's own state is what its declarations allow.                 *)
CliTypeOK ==
  /\ cli \in {"start", "open", "dump", "exit"}
  /\ code \in {0, 1}
  /\ ctx.wroteAnyEntity \in BOOLEAN /\ ctx.wroteAnyInCurrentEntity \in BOOLEAN

(* At every moment the output is the beginning of the one document the     *)
(* snapshot stands for: the incremental brackets never take a step that    *)
(* has to be taken back.                                                   *)
OutputIsPrefix == IsPrefix(file, Whole[snap][call.model])

(* The exit code is 0 exactly when the document is whole: no failure, be   *)
(* it of the first call or of a record in the middle, ends in output that  *)
(* can be taken for a complete dump.                                       *)
ExitTellsWhole ==
  cli = "exit" => (code = 0 <=> file = Whole[snap][call.model])

(* No entity's group is opened twice (a JSON reader would keep one only).  *)
NoKeyTwice ==
  \A i, j \in DOMAIN file :
    file[i][1] = "key" /\ file[j] = file[i] => i = j

(* The command comes to an end, whatever fails.                            *)
CommandExits == <>(cli = "exit")
=============================================================================
