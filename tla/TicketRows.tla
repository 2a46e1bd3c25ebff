----------------------------- MODULE TicketRows -----------------------------
\* The rows of the upstream dataset and what normalisation keeps of them
\* (data/normalize.py).  A row is a model value; its columns are what Attr says.
\* Its identity stands for ticket_record_id, which hashes the revision, the file,
\* the row number and the texts, so no row belongs to two revisions.
EXTENDS Integers, FiniteSets

CONSTANTS Row,        \* rows of every revision
          Revision,   \* the commits of the dataset a configuration can name
          Upstream,   \* the rows each revision holds
          Attr,       \* the columns of a row
          Queue,      \* labels of the target column
          Text,       \* texts up to case, width and white space
          None        \* an absent value, and an absent file

ASSUME RowsAssumption ==
    /\ Upstream \in [Revision -> SUBSET Row]
    /\ \A r, s \in Revision : r # s => Upstream[r] \cap Upstream[s] = {}
    /\ Attr \in [Row -> [malformed : BOOLEAN, language : STRING,
                         queue : Queue \cup {None}, text : Text \cup {None}]]
    /\ None \notin Queue \cup Text

EnglishAliases == {"en", "eng", "english"}

\* A filter that names English accepts every name of English.
LanguageMatches(value, filter) ==
    IF filter \in EnglishAliases THEN value \in EnglishAliases ELSE value = filter

\* The rows that survive: well formed, in the wanted language, with a label and a text.
NormalizedRows(revision, filter) ==
    {r \in Upstream[revision] : /\ ~Attr[r].malformed
                                /\ LanguageMatches(Attr[r].language, filter)
                                /\ Attr[r].queue # None
                                /\ Attr[r].text # None}

RowsOfQueue(rows, q) == {r \in rows : Attr[r].queue = q}
RowsOfText(rows, t) == {r \in rows : Attr[r].text = t}
TextsOf(rows) == {Attr[r].text : r \in rows}

\* contradictory_duplicate_groups: texts that carry more than one label.
Contradictory(rows) ==
    {t \in TextsOf(rows) : \E r, s \in RowsOfText(rows, t) : Attr[r].queue # Attr[s].queue}

=============================================================================
