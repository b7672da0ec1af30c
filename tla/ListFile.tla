------------------------------ MODULE ListFile ------------------------------
(***************************************************************************)
(* The list files of the bulletin board (deny_users, club_users,           *)
(* clubrights) and the two calls of libytht/fileop.c that change them:     *)
(* ytht_add_to_file and ytht_del_from_file, step by step.                  *)
(*                                                                         *)
(* A file is text that the deletion cuts where strstr finds a match, so it *)
(* is modelled as lines and an unterminated rest; a line is a word, spelt  *)
(* as a sequence of syllables, and a tail that tells the kinds of lines    *)
(* apart. Paths lead to inodes: a deletion renames a new inode over the    *)
(* path, and a writer may hold an inode that no path leads to any more.    *)
(***************************************************************************)
EXTENDS Integers, Sequences, FiniteSets

CONSTANTS
    Paths,        \* the list files
    Procs         \* the processes that use them

NoProc == "none"
NoFile == 0
Bare   == -1      \* tail of a line that is only a word
Manual == 0       \* tail of a denial without a date; other denials: the date

VARIABLES
    path,         \* path -> the inode it leads to, or NoFile
    text,         \* inode -> the lines and the unterminated rest
    stamp,        \* inode -> st_mtime
    lock,         \* inode -> the process that holds its flock, or NoProc
    now,          \* time(NULL)
    todo,         \* process -> the calls it still makes, the first one under way
    hand,         \* process -> where it is in that call and what it holds
    rc            \* process -> what its last call returned

files == <<path, text, stamp, lock>>
calls == <<todo, hand, rc>>

Line(word, tail) == [word |-> word, tail |-> tail]
Text(lines)      == [lines |-> lines, rest |-> <<>>]
Content(f)       == IF path[f] = NoFile THEN Text(<<>>) ELSE text[path[f]]

\* What fgets returns, one by one: a rest without its newline is a line too.
Read(txt) ==
    IF txt.rest = <<>> THEN txt.lines ELSE Append(txt.lines, Line(txt.rest, Bare))

\* seek_in_file and ytht_file_has_word: is it the first word of some line?
Seek(f, word) ==
    \E i \in DOMAIN Read(Content(f)) : Read(Content(f))[i].word = word

----------------------------------------------------------------------------
(* The text that the two calls compute.                                    *)

\* A newline is written after the line, whatever the file ended with.
Appended(txt, line) ==
    Text(Append(txt.lines, [line EXCEPT !.word = txt.rest \o @]))

\* "word\n" occurs where a line without a tail ends in the word.
EndsIn(line, word) ==
    /\ line.tail = Bare
    /\ Len(line.word) >= Len(word)
    /\ SubSeq(line.word, Len(line.word) - Len(word) + 1, Len(line.word)) = word

Occurrences(txt, word) == {i \in DOMAIN txt.lines : EndsIn(txt.lines[i], word)}

First(txt, word) ==
    CHOOSE i \in Occurrences(txt, word) : \A j \in Occurrences(txt, word) : i <= j

\* What stands on the line before the first occurrence: it is glued to what
\* follows.
Stub(txt, word) ==
    LET line == txt.lines[First(txt, word)].word
    IN  SubSeq(line, 1, Len(line) - Len(word))

\* Mutants: the newline stays; the copy goes on one line too late.
WithoutBlank(txt, word) ==
    [txt EXCEPT !.lines[First(txt, word)].word = Stub(txt, word)]
WithoutNext(txt, word) ==
    LET i == First(txt, word)
    IN  [txt EXCEPT !.lines = SubSeq(@, 1, i - 1) \o SubSeq(@, i + 2, Len(@))]
Without(txt, word) ==
    LET i    == First(txt, word)
        head == SubSeq(txt.lines, 1, i - 1)
        rest == SubSeq(txt.lines, i + 1, Len(txt.lines))
        stub == Stub(txt, word)
    IN  IF rest = <<>>
        THEN [lines |-> head, rest |-> stub \o txt.rest]
        ELSE [lines |-> head \o <<[Head(rest) EXCEPT !.word = stub \o @]>> \o Tail(rest),
              rest  |-> txt.rest]

\* The text would become empty: lseek to st_size - 1 - len = -1 fails.
Sole(txt, word) == txt = Text(<<Line(word, Bare)>>)

----------------------------------------------------------------------------
(* The steps of the calls.                                                 *)

Call(op, f, word, tail) == [op |-> op, file |-> f, word |-> word, tail |-> tail]
NoHand == [at |-> "out", fd |-> NoFile, src |-> Text(<<>>), mtime |-> 0]

Calling(p, op, at) ==
    /\ todo[p] # <<>>
    /\ Head(todo[p]).op = op
    /\ hand[p].at = at

Returns(p, result) ==
    /\ todo' = [todo EXCEPT ![p] = Tail(@)]
    /\ hand' = [hand EXCEPT ![p] = NoHand]
    /\ rc' = [rc EXCEPT ![p] = result]

Goes(p, got) ==
    /\ hand' = [hand EXCEPT ![p] = got]
    /\ UNCHANGED <<todo, rc>>

\* A new inode at the path of the file.
NewInode(f, txt, mtime) ==
    /\ path' = [path EXCEPT ![f] = Len(text) + 1]
    /\ text' = Append(text, txt)
    /\ stamp' = Append(stamp, mtime)
    /\ lock' = Append(lock, NoProc)

\* fopen(filename, "a"): creates the file when there is none.
AddOpen(p) ==
    LET f == Head(todo[p]).file IN
    /\ Calling(p, "add", "out")
    /\ \/ /\ path[f] = NoFile
          /\ NewInode(f, Text(<<>>), now)
       \/ /\ path[f] # NoFile
          /\ UNCHANGED files
    /\ Goes(p, [NoHand EXCEPT !.at = "opened", !.fd = path'[f]])

\* flock, fprintf into the buffer, LOCK_UN: the lock is given back before a
\* byte is written.
AddLock(p) ==
    /\ Calling(p, "add", "opened")
    /\ lock[hand[p].fd] = NoProc
    /\ Goes(p, [hand[p] EXCEPT !.at = "buffered"])
    /\ UNCHANGED files

\* fclose writes the buffer at the end of the inode, with no lock held.
AddWrite(p) ==
    LET c == Head(todo[p]) IN
    /\ Calling(p, "add", "buffered")
    /\ text' = [text EXCEPT ![hand[p].fd] = Appended(@, Line(c.word, c.tail))]
    /\ stamp' = [stamp EXCEPT ![hand[p].fd] = now]
    /\ Returns(p, 1)
    /\ UNCHANGED <<path, lock>>

DelOpen(p) ==
    LET f == Head(todo[p]).file IN
    /\ Calling(p, "del", "out")
    /\ path[f] # NoFile
    /\ Goes(p, [NoHand EXCEPT !.at = "opened", !.fd = path[f]])
    /\ UNCHANGED files

\* Under the flock, which goes with close(fdin): search, and copy what stands
\* around the match to /tmp (src is what was copied from).
DelCopy(p) ==
    LET txt  == text[hand[p].fd]
        word == Head(todo[p]).word
    IN
    /\ Calling(p, "del", "opened")
    /\ lock[hand[p].fd] = NoProc
    /\ Occurrences(txt, word) # {}
    /\ ~Sole(txt, word)
    /\ Goes(p, [hand[p] EXCEPT !.at = "copied", !.src = txt, !.mtime = now])
    /\ UNCHANGED files

\* The returns with -1: no file, no match, or nothing would be left.
DelFails(p) ==
    LET c == Head(todo[p]) IN
    /\ \/ /\ Calling(p, "del", "out")
          /\ path[c.file] = NoFile
       \/ /\ Calling(p, "del", "opened")
          /\ lock[hand[p].fd] = NoProc
          /\ \/ Occurrences(text[hand[p].fd], c.word) = {}
             \/ Sole(text[hand[p].fd], c.word)
    /\ Returns(p, -1)
    /\ UNCHANGED files

DelRename(p) ==
    /\ Calling(p, "del", "copied")
    /\ NewInode(Head(todo[p]).file, Without(hand[p].src, Head(todo[p]).word), hand[p].mtime)
    /\ Returns(p, 1)

\* rename(2) fails, as it does when /tmp is another file system.
DelRenameFails(p) ==
    /\ Calling(p, "del", "copied")
    /\ Returns(p, 0)
    /\ UNCHANGED files

CallStep(p) ==
    \/ AddOpen(p)
    \/ AddLock(p)
    \/ AddWrite(p)
    \/ DelOpen(p)
    \/ DelCopy(p)
    \/ DelFails(p)
    \/ DelRename(p)
    \/ DelRenameFails(p)
=============================================================================
