----------------------------- MODULE MCFileData -----------------------------
(***************************************************************************)
(* Inputs for FileData: blocks of two cells, one direct block, so that     *)
(* block 0 is direct, 1-2 are below the indirect pointer, 3-6 below the    *)
(* double and 7-14 below the triple one.                                   *)
(***************************************************************************)
EXTENDS FileData

\* Writes that stay in one block: the direct block, and both blocks below
\* the indirect pointer, at the start of a block and inside it
InBlock == {<<0, <<1, 1>>>>, <<0, <<0, 0>>>>, <<3, <<1>>>>, <<3, <<0>>>>,
            <<4, <<1, 0>>>>, <<4, <<0, 0>>>>}

\* Two neighbours below the double indirect pointer and a block below the
\* triple one; appends and directories fill the direct block
DeepBlocks == {<<7, <<1>>>>, <<6, <<0, 0>>>>, <<8, <<1, 0>>>>, <<14, <<1, 0>>>>}

\* Writes over several blocks, at the start of a block and inside it, whose
\* blocks are zero or not independently of each other
Spanning == {<<0, <<1, 1, 0, 0>>>>, <<0, <<0, 0, 1, 1>>>>, <<1, <<1, 1, 1, 1, 1>>>>,
             <<1, <<0, 0, 0, 0, 1>>>>, <<0, <<0, 0, 0, 0, 0, 0>>>>}

\* The same, one across the last block a triple indirect pointer reaches
\* (block 14), and zeros beyond it
Crossing == {<<0, <<1, 1, 0, 0>>>>, <<1, <<1, 1, 1, 1, 1>>>>, <<0, <<0, 0, 0, 0, 0, 0>>>>,
             <<28, <<1, 1, 1>>>>, <<30, <<0, 0>>>>}

\* One byte at a time, which crosses a block boundary only between writes
OneByte == {<<1>>}
=============================================================================
