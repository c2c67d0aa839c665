-------------------------------- MODULE Framing --------------------------------
(***************************************************************************)
(* The frames of a stream in the order they are generated: a stream is chained  *)
(* out of sections, a section is a list of items, and an item takes one or      *)
(* more frames.  Frames are made one at a time as they are sent, so what a side *)
(* holds is a place in that order.  A shape says how many frames each item of   *)
(* each section takes.                                                      *)
(***************************************************************************)
EXTENDS Naturals, Sequences

\* An empty file still takes a frame.
FramesIn(chunks) == IF chunks = 0 THEN 1 ELSE chunks

\* The first section from s on that has an item, or the one after the last.
NextSection(shape, s) ==
  CHOOSE n \in s .. Len(shape) + 1 :
    /\ n <= Len(shape) => shape[n] # <<>>
    /\ \A empty \in s .. n - 1 : shape[empty] = <<>>

From(shape, s) == [section |-> NextSection(shape, s), item |-> 1, chunk |-> 1]

Start(shape) == From(shape, 1)

After(shape, at) ==
  IF at.chunk < shape[at.section][at.item]
  THEN [at EXCEPT !.chunk = @ + 1]
  ELSE IF at.item < Len(shape[at.section])
       THEN [at EXCEPT !.item = @ + 1, !.chunk = 1]
       ELSE From(shape, at.section + 1)

\* There is no frame left.
AtEnd(shape, at) == at.section > Len(shape)
=============================================================================
