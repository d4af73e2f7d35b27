----------------------------- MODULE MCBoardId ------------------------------
(* A small instance of BoardId.                                             *)
EXTENDS BoardId

Says(says, id) == [says |-> says, id |-> id, pins |-> "standard", words |-> <<>>]
Extend(which, words) == [says |-> "extended", id |-> 2, pins |-> which, words |-> words]
One == <<0, 1, 1, 1>>   \* one word, id 1, revision 1
Two == <<1, 0, 1, 0>>   \* two words, id 1, revision 0
More == <<0, 1, 0, 1>>
Many == <<1, 1, 1, 0>>  \* more words than MAX_EXTENDED_WORDS
AllBoards == {Says("nothing", 12), Says("no register", 15), Says("id", 5), Says("old bitfile", 2),
              Extend("standard", <<One>>), Extend("3x3g", <<One>>), Extend("standard", <<Two, More>>),
              Extend("standard", <<Many>>)}
Widths == <<2, 1, 1>>
=============================================================================
