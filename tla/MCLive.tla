---- MODULE MCLive ----
EXTENDS LiveStream, TLC

MCEvents == {[session |-> 1, channel |-> "race_control", driver |-> 0],
             [session |-> 2, channel |-> "timing", driver |-> 7]}
MCChannels == {"timing", "race_control"}

\* Refused at its drivers, after its session and its channels were taken over;
\* and one the handler does not survive.
MCOther == {<<Subscribe(<<2>>, <<{"timing"}>>, <<{7, 8}>>)>>,
            <<Subscribe(<<2>>, <<{Unhashable}>>, <<>>)>>}
====
