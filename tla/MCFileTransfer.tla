--------------------------- MODULE MCFileTransfer ---------------------------
(* Instances of FileTransfer for TLC.                                      *)
EXTENDS FileTransfer, TLC

CONSTANTS good, bad, wide, vast, dots, x, y

(* An empty file, one of one byte, one that begins like the end of a line  *)
(* and takes several fragments, and one that is too big.                   *)
Empty == <<>>
Short == <<x>>
Long  == <<NL, NL, x, y, x>>
Huge  == <<y, y, y, y, y, y>>

MCData    == {x, y, NL, Stale}
MCContent == {Empty, Short, Long, Huge, <<x, y>>, <<x, y, x>>}
MCName    == {good, bad, wide, vast, dots}
MCParola  == {good}
MCDirectories == {dots}
MCSeekEnds    == {NoSize, 4}

(* The longest request, which leaves a line feed behind, or two if it      *)
(* comes after another, and one that is too long: see Typeable.            *)
MCWidth == [f \in MCName |-> IF f = wide THEN 3 ELSE IF f = vast THEN 4 ELSE 0]

Good(c, other) ==
    [f \in MCName |-> IF f = good THEN c ELSE IF f = bad THEN other ELSE Absent]

Start(locals, roots, kinds) == [local : locals, root : roots, faults : {kinds}]

(* The user has a file by each name; root/ may have one by the good name.  *)
CalmStarts ==
    Start({Good(c, Short) : c \in {Empty, Short, Long, Huge}},
          {Good(c, Absent) : c \in {Absent, Empty, Long}}, {})

(* Uploads of one and of two bytes: as many as the tokens of a request.    *)
FaultyStarts(kinds) ==
    Start({Good(c, Short) : c \in {Short, <<x, y>>, <<x, y, x>>}}, {Good(Short, Absent)}, kinds)

MCStarts == CalmStarts \union FaultyStarts({"vanish", "shrink", "noDownloads", "overlong"})

UploadStarts == FaultyStarts({"vanish", "shrink"})

NoDownloadsStarts == FaultyStarts({"noDownloads"})

(* root/ also holds a file that no command can name, put there by hand.    *)
FullStarts == Start({Good(Short, Short)}, {Good(Short, Short)}, {})
=============================================================================
