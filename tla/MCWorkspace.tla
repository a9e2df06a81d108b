----------------------------- MODULE MCWorkspace -----------------------------
(* Bundles with audio, with videos, with files of clashing names, and with   *)
(* files outside the expected path, under the options that concern them.     *)
EXTENDS Workspace

In(stem, ext) == <<"in", stem, ext>>

MCBundles == {
    {In("song", "acb"), In("voice", "wav"), In("pic", "png")},
    {In("song", "acb"), <<"root", "voice", "wav">>, In("t1", "wav")},
    {In("a", "usm"), In("b", "usm"), In("dir", "usm")},
    {In("a", "usm"), <<"root", "b", "usm">>},
    {In("a", "usm"), In("x:", "png"), In("x_", "png")},
    {In("text", "txt")}}

MCTracks == [a \in {"song"} |-> {"t1", "t2"}]
MCClean  == [a \in {"x:"} |-> "x_"]

MCOptions ==
    LET off == [usm |-> "keep", acb |-> "keep", mp3 |-> FALSE, flac |-> FALSE,
                removeWav |-> FALSE, mp4 |-> "off", removeM2V |-> FALSE,
                webp |-> FALSE, removePNG |-> FALSE]
    IN  {[off EXCEPT !.acb = a, !.mp3 = m, !.flac = f, !.removeWav = r] :
             a \in {"off", "keep", "extract", "decode"}, m, f, r \in BOOLEAN}
        \cup {[off EXCEPT !.usm = u, !.mp4 = v, !.removeM2V = r] :
             u \in {"off", "decode"}, v \in {"off", "m2v", "direct"}, r \in BOOLEAN}
        \cup {[off EXCEPT !.usm = "decode", !.webp = TRUE, !.removePNG = r] : r \in BOOLEAN}
=============================================================================
