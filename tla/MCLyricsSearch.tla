---------------------------- MODULE MCLyricsSearch ----------------------------
(* A small instance of LyricsSearch for TLC. *)
EXTENDS LyricsSearch, TLC

Words == {"a", "b", "c", "d", "e", "a2", "x", "y", "again"}
Lemmas == [w \in Words |-> IF w = "a2" THEN "a" ELSE w]
Sounds == [w \in Words |-> w]
NoPairs == {}
AFewPairs == {{"y", "e"}}
Logs == <<0, 693, 1099, 1386, 1609, 1792, 1946, 2079, 2197, 2303, 2398, 2485, 2565, 2639, 2708>>

\* What was heard, and texts about it.
Sung == <<"a", "b", "c", "d", "e", "a", "b">>
Transcripts == {<<>>, <<"a", "b">>, Sung}

Lines(words) == <<[words |-> words, times |-> 1]>>
Section(label, times, lines) == [label |-> label, times |-> times, lines |-> lines]
Plain(words) == <<Section("", 1, Lines(words))>>
Exact == Plain(Sung)
Refrain == <<Section("chorus", 1, Lines(<<"a", "b">>)), Section("verse", 1, Lines(<<"c", "d", "e">>)),
             Section("chorus", 1, <<>>)>>
Remix == <<Section("", 1, Lines(Sung) \o <<[words |-> <<"x", "b">>, times |-> 2]>>)>>
Beginning == Plain(<<"a", "b", "c", "d", "e">>)
Instructed == Plain(<<"a", "b", "c", "d", "e", "again">>)
Misheard == Plain(<<"a2", "b", "c", "d", "y">>)
Other == Plain(<<"x", "y", "x">>)
Headers == <<Section("intro", 1, <<>>), Section("verse", 2, <<>>), Section("chorus", 1, <<>>)>>

RawTexts == [exact |-> Exact, refrain |-> Refrain, remix |-> Remix, instructed |-> Instructed,
             misheard |-> Misheard, other |-> Other, headers |-> Headers, beginning |-> Beginning]

Cand(artist, title, text) == [artist |-> artist, title |-> title, text |-> text]

Names == {[artist |-> "", title |-> ""], [artist |-> "A", title |-> "T"]}
Parsed == {[artists |-> <<>>, titles |-> <<"T">>], [artists |-> <<"A", "A2">>, titles |-> <<"T">>]}

\* By words, by names, by fields, at the last provider.
Web(w, n, f, o) ==
  [q \in [kind : {"words", "named", "title", "fields", "ovh"}, artist : {"", "A", "A2"}, title : {"", "T"}] |->
     CASE q.kind = "words" -> w
       [] q.kind \in {"named", "title"} -> n
       [] q.kind = "fields" /\ q.artist = "A2" -> f
       [] q.kind = "ovh" /\ q.artist = "A" -> o
       [] OTHER -> <<>>]
Knowledge ==
  <<Web(<<>>, <<>>, <<>>, <<>>),
   Web(<<Cand("B", "R", "remix"), Cand("C", "T", "refrain")>>, <<Cand("A", "T", "misheard")>>, <<>>, <<>>),
   Web(<<Cand("A", "T", "remix")>>, <<Cand("A", "T", "exact")>>, <<>>, <<Cand("", "", "other")>>),
   Web(<<Cand("B", "R", "remix"), Cand("C", "T", "beginning"), Cand("A", "T", "exact")>>, <<>>, <<>>, <<>>),
   Web(<<Cand("B", "I", "instructed"), Cand("C", "I", "instructed")>>, <<>>, <<Cand("A", "T", "misheard")>>, <<Cand("", "", "exact")>>),
   Web(<<Cand("C", "M", "misheard"), Cand("D", "H", "headers")>>, <<>>, <<>>, <<>>)>>
AllWebs == DOMAIN Knowledge

Answers == {Sung, <<"a", "b", "c", "d", "e">>}
AgentFinds == {<<>>, <<Cand("U", "U", "instructed"), Cand("B", "I", "instructed")>>, <<Cand("U", "U", "other")>>}
Both == {<<>>, <<"yandex">>, <<"searxng", "yandex">>}
=============================================================================
