--------------------------- MODULE AmigaDebugInfo ---------------------------
(***************************************************************************)
(* What the Amiga plugin knows about the source: the parser of executables *)
(* (HunkParser), which keeps the line tables of each hunk, and the lookups *)
(* (DebugInfo) from an offset in a segment to a line and back.             *)
(*                                                                         *)
(* An executable is the number of hunks its header names and the blocks of *)
(* each hunk, without the HUNK_END that closes it.  Hunks are numbered     *)
(* from 1 here and segments from 0, as in the code.                        *)
(***************************************************************************)
EXTENDS Integers, Sequences, SequencesExt

\* Blocks: code, data, bss, relocations and symbols have no lines; a name or a unit has a
\* number of longs; a debug block has the tag LINE or another.
Plain               == [kind |-> "plain", longs |-> 0, name |-> "", base |-> 0, lines |-> << >>]
Name(longs)         == [Plain EXCEPT !.kind = "name", !.longs = longs]
OtherDebug          == [Plain EXCEPT !.kind = "other debug"]
Lines(name, base, lines) ==
    [Plain EXCEPT !.kind = "lines", !.name = name, !.base = base, !.lines = lines]
Unknown             == [Plain EXCEPT !.kind = "unknown"]

Line(line, offset) == [line |-> line, offset |-> offset]

LineSet == [line : Nat, offset : Nat]
BlockSet ==
    {block \in [kind : {"plain", "name", "other debug", "lines", "unknown"}, longs : Nat,
                name : STRING, base : Nat, lines : Seq(LineSet)] :
         block.kind # "lines" => block.lines = << >>}

SourceFile(name, lines) == [name |-> name, lines |-> lines]
SourceFileSet == [name : STRING, lines : Seq(LineSet)]

\* Mutant: the base offset is left out.
ParseDebugNoBase(files, block) == Append(files, SourceFile(block.name, block.lines))

\* parse_debug and fill_debug_info: one more source file of the hunk, its offsets from the
\* start of the segment.
ParseDebug(files, block) ==
    Append(files, SourceFile(block.name,
                             [i \in DOMAIN block.lines |->
                                 Line(block.lines[i].line, block.base + block.lines[i].offset)]))

\* skip_hunk goes on by as many bytes as there are longs: into the name, unless it is empty.
Readable(block) ==
    /\ block.kind # "unknown"
    /\ block.kind = "name" => block.longs = 0

\* fill_hunk: the line tables, in the order of the file.
FillHunk(blocks) ==
    LET files[n \in 0..Len(blocks)] ==
            IF n = 0 THEN << >>
            ELSE IF blocks[n].kind = "lines" THEN ParseDebug(files[n - 1], blocks[n])
            ELSE files[n - 1]
    IN  files[Len(blocks)]

\* parse_file, of which one hunk that cannot be read, or is not there, fails everything.
Parses(exe) ==
    /\ exe.count <= Len(exe.hunks)
    /\ \A h \in 1..exe.count : \A b \in DOMAIN exe.hunks[h] : Readable(exe.hunks[h][b])

ParseFile(exe) == [h \in 1..exe.count |-> FillHunk(exe.hunks[h])]

-----------------------------------------------------------------------------
Place(seg, offset) == [seg |-> seg, offset |-> offset]
NoPlace == Place(-2, 0)

Source(name, line) == [name |-> name, line |-> line]
NoSource == Source("", -1)

\* Mutant: a line begins after its offset.
TryFindLineBefore(file, offset) ==
    LET Before == {i \in DOMAIN file.lines : file.lines[i].offset < offset}
    IN  IF Before = {} THEN NoSource ELSE Source(file.name, file.lines[Max(Before)].line)

\* try_find_line: the line at the offset, or the last one before it if there is one after it.
TryFindLine(file, offset) ==
    LET At     == {i \in DOMAIN file.lines : file.lines[i].offset = offset}
        Before == {i \in DOMAIN file.lines : file.lines[i].offset < offset}
        After  == {i \in DOMAIN file.lines : file.lines[i].offset > offset}
    IN  CASE At # {}                       -> Source(file.name, file.lines[Min(At)].line)
          [] At = {} /\ After # {}         -> Source(file.name, IF Before = {} THEN 0
                                                       ELSE file.lines[Max(Before)].line)
          [] At = {} /\ After = {}         -> NoSource

\* resolve_file_line: the first source file of the hunk that knows a line.
ResolveFileLine(hunks, offset, seg) ==
    IF seg >= Len(hunks) THEN NoSource
    ELSE LET files == hunks[seg + 1]
             known == {f \in DOMAIN files : TryFindLine(files[f], offset) # NoSource}
         IN  IF known = {} THEN NoSource ELSE TryFindLine(files[Min(known)], offset)

\* get_address_seg: the first entry of the line, over hunks, their files and their lines.
GetAddressSeg(hunks, name, line) ==
    LET LinesIn(file)  == {i \in DOMAIN file.lines : file.name = name /\ file.lines[i].line = line}
        FilesIn(files) == {f \in DOMAIN files : LinesIn(files[f]) # {}}
        found          == {h \in DOMAIN hunks : FilesIn(hunks[h]) # {}}
        files          == hunks[Min(found)]
        file           == files[Min(FilesIn(files))]
    IN  IF found = {} THEN NoPlace
        ELSE Place(Min(found) - 1, file.lines[Min(LinesIn(file))].offset)

-----------------------------------------------------------------------------
\* The entries of the line tables of a hunk, and those its blocks hold.
EntriesOf(files) ==
    UNION {{<<file.name, l.line, l.offset>> : l \in ToSet(file.lines)} : file \in ToSet(files)}

EntriesIn(blocks) ==
    UNION {{<<b.name, l.line, b.base + l.offset>> : l \in ToSet(b.lines)} : b \in ToSet(blocks)}
=============================================================================
