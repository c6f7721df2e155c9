--------------------------- MODULE MCSearchWalks ---------------------------
\* Documents with names of the forms the test fixtures show.
EXTENDS SearchWalks

Named(form, no) == IF form = Absent THEN NoName ELSE [form |-> form, no |-> no]

\* Its names are its own, by the number.
D(no, source, id, docId, numero, index, decodes, MB) ==
  [source |-> source, id |-> Named(id, no), docId |-> Named(docId, no),
   numero |-> Named(numero, no), index |-> index, decodes |-> decodes, MB |-> MB]

\* But for its numero, which it has in common with the document of that number.
Numbered(no, doc) == [doc EXCEPT !.numero.no = no]

\* Five dictamenes (one whose index is not its own, one without _id), an
\* instructivo, contables of two sizes, audits light, heavy and over the limit
\* together, one of each other kind, and namesakes: an audit, and a contable
\* whose _id its tool refuses; the last three come while clients walk.
Published == <<
  D(1, "dictamenes", "LNyy", "LNyy", "num", "own", TRUE, 0),
  D(2, "dictamenes", "ENyy", "ENyy", "ENyy", "cgr", TRUE, 0),
  D(3, "dictamenes", "", "ENyy", "num", "none", TRUE, 0),
  D(4, "instructivos", "LNyy", "LNyy", "LNyy", "own", TRUE, 0),
  D(5, "contable", "E", "ENyy", "E", "own", TRUE, 0),
  D(6, "contable", "", "OFE", "", "own", TRUE, 3),
  D(7, "auditoria", "n/yyyy", "LNyy", "n/yyyy", "own", TRUE, 3),
  D(8, "auditoria", "num", "LNyy", "n/yyyy", "own", FALSE, 1),
  D(9, "legislacion", "RZA", "RZA", "num", "own", TRUE, 4),
  D(10, "legislacion", "RZA", "RZA", "", "own", TRUE, 3),
  D(11, "cuentas", "num7", "num7", "num", "own", TRUE, 0),
  D(12, "consolidados", "CIC", "CIC", "CIC", "none", TRUE, 1),
  D(13, "web", "other", "other", "", "alien", TRUE, 0),
  D(14, "leyes", "num7", "num7", "num7", "own", TRUE, 0),
  D(15, "leyes", "num7", "num7", "num7", "own", TRUE, 0),
  Numbered(7, D(16, "auditoria", "num", "LNyy", "n/yyyy", "own", TRUE, 1)),
  Numbered(5, D(17, "contable", "LNyy", "LNyy", "E", "own", TRUE, 0)),
  D(18, "dictamenes", "ENyy", "ENyy", "ENyy", "own", TRUE, 0),
  D(19, "leyes", "num7", "num7", "num7", "own", TRUE, 0) >>

\* TLC keeps the value of a definition, but takes what stands for a constant
\* anew at each use.
MCDocs == Published

\* Every source in its default order, the larger ones oldest first as well,
\* and a source and an order that do not exist.
MCAsked == [source : allowedSources \cup {"", "unknown"}, order : {""}]
             \cup [source : {"", "todos"}, order : {"dateasc", "unknown"}]

\* The contables, oldest first.
MCAskedContable == [source : {"contable"}, order : {"dateasc"}]

MCPageArg == {-1, 0}
MCSizeArg == {0, 1, maxSize + 1}
=============================================================================
