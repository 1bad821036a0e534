---------------------------- MODULE SessionStore ----------------------------
(***************************************************************************)
(* session.Manager: one file of JSON lines for each session.  Metadata is   *)
(* appended, never rewritten, and read back from the first and last lines   *)
(* of the file only.  Every operation holds Manager.mu throughout; the      *)
(* program that converses appends messages without it.                      *)
(***************************************************************************)
EXTENDS Naturals, Sequences, FiniteSetsExt

CONSTANTS
  MaxSessions, MaxLines, MaxUUIDs,   \* bounds: sessions, lines, UUIDs made
  HeadLines, TailLines,              \* 20 and 10 in readSessionInfo
  Titles, Tags

None == "none"   \* the empty string: no title, no tag
Ids  == 1..MaxSessions

\* A line: a user message, or a metadata line with its title and tag.  A
\* UUID is a number; metadata lines have the empty one, 0.  What was said is
\* the UUID of the original message.
User(u, said) ==
  [type |-> "user", uuid |-> u, said |-> said, title |-> None, tag |-> None, hasTag |-> FALSE]
Meta(title, tag) ==
  [type |-> "meta", uuid |-> 0, said |-> 0, title |-> title, tag |-> tag, hasTag |-> TRUE]

VARIABLES
  files,       \* the lines of each session's file
  uuids,       \* UUIDs made so far
  named,       \* history: the number of the line with the last title given
  forked       \* history: what each fork should have been given

vars == <<files, uuids, named, forked>>

Exists(s) == s \in DOMAIN files

Init ==
  /\ files = [s \in {1} |-> <<>>]
  /\ uuids = 0
  /\ named = [s \in Ids |-> 0]
  /\ forked = [s \in {} |-> <<>>]

-----------------------------------------------------------------------------
(* Reading                                                                  *)
readHeadLines(lines) == SubSeq(lines, 1, Min({HeadLines, Len(lines)}))
readTailLines(lines) == SubSeq(lines, Len(lines) - Min({TailLines, Len(lines)}) + 1, Len(lines))

extractInfo(info, line) ==
  [title  |-> IF line.title # None THEN line.title ELSE info.title,
   tag    |-> IF line.hasTag THEN line.tag ELSE info.tag,
   prompt |-> IF line.type = "user" /\ info.prompt = 0 THEN line.said ELSE info.prompt]

\* A fault: a wrong version of the definition below, which no action uses.
TailBeforeHead(lines) == readTailLines(lines) \o readHeadLines(lines)

LinesRead(lines) == readHeadLines(lines) \o readTailLines(lines)

readSessionInfo(s) ==
  LET lines == LinesRead(files[s])
      info[k \in 0 .. Len(lines)] ==
        IF k = 0 THEN [title |-> None, tag |-> None, prompt |-> 0]
                 ELSE extractInfo(info[k - 1], lines[k])
  IN  info[Len(lines)]

ListSessions == [s \in DOMAIN files |-> readSessionInfo(s)]

-----------------------------------------------------------------------------
(* Writing                                                                  *)
appendLine(s, line) ==
  /\ Exists(s) /\ Len(files[s]) < MaxLines
  /\ files' = [files EXCEPT ![s] = Append(@, line)]

\* The program that uses the session, not this package.
AppendMessage(s) ==
  /\ uuids < MaxUUIDs /\ uuids' = uuids + 1
  /\ appendLine(s, User(uuids', uuids'))
  /\ UNCHANGED <<named, forked>>

\* The metadata line of a rename has an empty tag.
RenameSession(s, title) ==
  /\ appendLine(s, Meta(title, None))
  /\ named' = [named EXCEPT ![s] = Len(files'[s])]
  /\ UNCHANGED <<uuids, forked>>

TagSession(s, tag) ==
  /\ appendLine(s, Meta(None, tag))
  /\ UNCHANGED <<uuids, named, forked>>

\* Nobody makes the ID again: a session's file stays away.
DeleteSession(s) ==
  /\ Exists(s)
  /\ files' = [t \in DOMAIN files \ {s} |-> files[t]]
  /\ UNCHANGED <<uuids, named, forked>>

-----------------------------------------------------------------------------
(* Fork                                                                     *)
\* Of a metadata line this takes its type for that of a message, and what it
\* said of the session goes one level down.
readAllMessages(lines) ==
  [i \in DOMAIN lines |-> [type |-> lines[i].type, uuid |-> lines[i].uuid, said |-> lines[i].said]]

HasMessage(messages, u) == \E i \in DOMAIN messages : messages[i].uuid = u

First(messages, u) ==
  CHOOSE i \in DOMAIN messages : /\ messages[i].uuid = u
                                 /\ \A j \in 1 .. i - 1 : messages[j].uuid # u

UpTo(messages, u) == SubSeq(messages, 1, First(messages, u))

\* The lines written, with new UUIDs.
Remapped(messages) ==
  [i \in DOMAIN messages |->
     [type |-> messages[i].type, uuid |-> uuids + i, said |-> messages[i].said,
      title |-> None, tag |-> None, hasTag |-> FALSE]]

WithTitle(title, lines) ==
  IF title = None THEN lines ELSE <<Meta(title, None)>> \o lines

With(m, key, value) == [k \in DOMAIN m \cup {key} |-> IF k = key THEN value ELSE m[k]]

\* uuid.New makes an ID that no session has had.
ForkSession(s, new, u, title) ==
  LET messages == readAllMessages(files[s])
      copy     == Remapped(UpTo(messages, u))
  IN /\ Exists(s) /\ HasMessage(messages, u)
     /\ new \in Ids \ ({1} \cup DOMAIN forked)
     /\ uuids + Len(copy) <= MaxUUIDs
     /\ uuids' = uuids + Len(copy)
     /\ files' = With(files, new, WithTitle(title, copy))
     /\ named' = [named EXCEPT ![new] = IF title = None THEN 0 ELSE 1]
     /\ forked' = With(forked, new, SubSeq(files[s], 1, First(files[s], u)))

Next ==
  \E s \in Ids :
    \/ AppendMessage(s)
    \/ \E title \in Titles : RenameSession(s, title)
    \/ \E tag \in Tags \cup {None} : TagSession(s, tag)
    \/ DeleteSession(s)
    \/ \E new \in Ids, u \in 0 .. uuids, title \in Titles \cup {None} :
         ForkSession(s, new, u, title)

Spec == Init /\ [][Next]_vars

-----------------------------------------------------------------------------
(***************************************************************************)
(* The last title given to a session is the one ListSessions and           *)
(* GetSessionInfo show, as long as its line is among those read, although   *)
(* the lines of the head and of the tail overlap in short files.            *)
(***************************************************************************)
LastTitleShown ==
  \A s \in Ids :
    /\ Exists(s)
    /\ named[s] \in 1..HeadLines \cup (Len(files[s]) - TailLines + 1)..Len(files[s])
    => readSessionInfo(s).title = IF named[s] = 0 THEN None ELSE files[s][named[s]].title

(***************************************************************************)
(* A fork keeps, behind the line of its title, all lines up to the message  *)
(* it was asked for, in their order and with what they said; and no two     *)
(* messages of all sessions have the same UUID, so that a fork of a fork    *)
(* finds the right one.                                                     *)
(***************************************************************************)
ForksApart ==
  /\ \A s \in DOMAIN files \cap DOMAIN forked : \E k \in {0, 1} :
       \A i \in DOMAIN forked[s] :
         /\ k + i \in DOMAIN files[s]
         /\ files[s][k + i].type = forked[s][i].type
         /\ files[s][k + i].said = forked[s][i].said
  /\ \A s, t \in DOMAIN files :
       \A i \in DOMAIN files[s], j \in DOMAIN files[t] :
         files[s][i].uuid = files[t][j].uuid /\ files[s][i].uuid # 0 => <<s, i>> = <<t, j>>
=============================================================================
