---------------------------- MODULE MCJournalWriter ----------------------------
EXTENDS JournalWriter

CONSTANTS c1, c2, old

FirstCaptures == [c \in Caller |-> IF c = c1 THEN {"terminal_output"} ELSE {}]
TwoAndOne == [c \in Caller |-> IF c = c1 THEN 2 ELSE 1]
OneRow == {<<<<old, 1>>, "terminal_output">>, <<<<old, 1>>, "raw_capture">>}
===============================================================================
