---------------------------- MODULE MCFrameStream ---------------------------
(* Values for TLC: bodies that could be taken for parts of a header. *)
EXTENDS FrameStream, TLC

MCToWire == "one" :> <<1>> @@ "two" :> <<0, 2>> @@ "big" :> <<1, 1, 1>>
MCFromWire == <<1>> :> "one" @@ <<0, 2>> :> "two" @@ <<2, 0>> :> "two" @@ <<1, 1, 1>> :> "big"

\* No length, too long a length, an unknown body, a frame with its fields reordered, half a header.
MCJunk == {<<0, 0, 0, 0>>, <<0, 0, 0, 3>>, <<0, 0, 0, 1, 9>>, <<0, 0, 0, 2, 2, 0>>, <<0, 0>>}
=============================================================================
