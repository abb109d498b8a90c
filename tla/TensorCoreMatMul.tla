-------------------------- MODULE TensorCoreMatMul --------------------------
(* tensorCoreMatMulKernel of 03-Hardware-Acceleration-and-Networking/tensor-*)
(* core-matrix.cpp: the warps of a grid, each at its own pace, the lanes of *)
(* a warp in step.  The arrays are flat, as in the code, and of any size.  A*)
(* number of the accumulator is the sequence of the products added up in it,*)
(* a product the pair of the indices in a and b of its factors, which may   *)
(* lie behind the array.  External: what the functions of namespace wmma do;*)
(* the launch, which is not in the file, is taken to make whole warps, at   *)
(* least one for each tile of c.  An access behind an array is taken to go  *)
(* on; the device may also stop the kernel there.                           *)
EXTENDS Integers, Sequences

CONSTANTS
  Tile,                 \* WMMA_M, WMMA_N and WMMA_K, all 16 in the code
  MatrixSizes,          \* what M, N and K may be
  WarpRows, WarpCols    \* the warps of the grid

MatMulAssumption ==
  /\ {Tile, WarpRows, WarpCols} \subseteq Nat \ {0} /\ MatrixSizes \subseteq Nat
  /\ \A d \in MatrixSizes : WarpRows * Tile >= d /\ WarpCols * Tile >= d

VARIABLES
  M, N, K,  \* the arguments: a is M by K, b is K by N, c is M by N
  c,        \* the result in global memory
  k,        \* k[w]: the loop's i in warp w
  frag,     \* frag[w]: c_frag
  stray     \* memory behind one of the arrays was accessed

vars == <<M, N, K, c, k, frag, stray>>

Warps == (0..(WarpRows - 1)) \X (0..(WarpCols - 1))    \* <<warpM, warpN>>
TileCells == (0..(Tile - 1)) \X (0..(Tile - 1))        \* of a tile: row, column
Stored == K + Tile                                     \* the warp has ended
Unwritten == << <<>> >>

(* Every warp is at a tile of K, behind the loop, or at its end. *)
TypeOK ==
  /\ {M, N, K} \subseteq MatrixSizes /\ stray \in BOOLEAN
  /\ DOMAIN c = 0..(M * N - 1) /\ \A w \in Warps : DOMAIN frag[w] = TileCells
  /\ k \in [Warps -> {n \in 0..Stored : n = Stored \/ n % Tile = 0}]

Init ==
  /\ M \in MatrixSizes /\ N \in MatrixSizes /\ K \in MatrixSizes
  /\ c = [n \in 0..(M * N - 1) |-> Unwritten]
  /\ k = [w \in Warps |-> 0]
  /\ frag = [w \in Warps |-> [cell \in TileCells |-> <<>>]]
  /\ stray = FALSE

-----------------------------------------------------------------------------
(* mutant: the columns are not checked *)
InBoundsRows(w) == w[1] * Tile < M
(* The bounds check of the loads and of the store: of the corner of a tile. *)
InBounds(w) == w[1] * Tile < M /\ w[2] * Tile < N

(* The index that a fragment's row and column have in a: row major. *)
A_frag(w, row, col) == (w[1] * Tile) * K + k[w] + row * K + col

(* ... and in b: column major, with N numbers from column to column. *)
B_frag(w, row, col) == k[w] * N + w[2] * Tile + col * N + row

(* mma_sync: c_frag = a_frag * b_frag + c_frag *)
Multiplied(w) ==
  [cell \in TileCells |-> frag[w][cell] \o
     [n \in 1..Tile |-> <<A_frag(w, cell[1], n - 1), B_frag(w, n - 1, cell[2])>>]]

(* One iteration of the loop over the K-dimension. *)
Accumulate(w) ==
  /\ k[w] < K
  /\ k' = [k EXCEPT ![w] = @ + Tile]
  /\ IF InBounds(w)
     THEN /\ frag' = [frag EXCEPT ![w] = Multiplied(w)]
          /\ stray' = (stray \/ \E x \in TileCells :
                                  A_frag(w, x[1], x[2]) >= M * K \/ B_frag(w, x[1], x[2]) >= K * N)
     ELSE UNCHANGED <<frag, stray>>
  /\ UNCHANGED <<M, N, K, c>>

(* store_matrix_sync: row major, with N numbers from row to row. *)
C_frag(w, cell) == (w[1] * Tile) * N + w[2] * Tile + cell[1] * N + cell[2]

(* Of several cells that have one index, any is the last to be written. *)
Store(w) ==
  /\ k[w] >= K /\ k[w] # Stored
  /\ k' = [k EXCEPT ![w] = Stored]
  /\ LET Hit(n) == {x \in TileCells : InBounds(w) /\ C_frag(w, x) = n}
         written == {n \in DOMAIN c : Hit(n) # {}}
     IN  \E last \in [written -> TileCells] :
           /\ \A n \in written : last[n] \in Hit(n)
           /\ c' = [n \in DOMAIN c |-> IF n \in written THEN frag[w][last[n]] ELSE c[n]]
  /\ stray' = (stray \/ (InBounds(w) /\ \E x \in TileCells : C_frag(w, x) >= M * N))
  /\ UNCHANGED <<M, N, K, frag>>

Rest == (\A w \in Warps : k[w] = Stored) /\ UNCHANGED vars

Next == (\E w \in Warps : Accumulate(w) \/ Store(w)) \/ Rest

(* The device runs every warp. *)
Fairness == \A w \in Warps : WF_vars(Accumulate(w) \/ Store(w))

Spec == Init /\ [][Next]_vars /\ Fairness

-----------------------------------------------------------------------------
(* Where b has element (row, col) of the matrix B if each tile of B is kept *)
(* column by column, in the place the tile has in a row-major matrix (it can*)
(* be if B is made of whole tiles).                                         *)
StoredAt(row, col) ==
  ((row - (row % Tile)) + (col % Tile)) * N + (col - (col % Tile)) + (row % Tile)

(* How far a last tile reaches over the end of a row, and so into the next. *)
Spoilt == (-N) % Tile

(* The numbers of c, for matrices of any size, are dot products of a row and*)
(* a column, each product once and in order, except in as many first columns*)
(* as a last tile reaches over; more is added to them only if K is not made *)
(* of whole tiles.  None is left, or overwritten by a warp that lies outside*)
(* the matrix; and matrices of whole tiles are all that is accessed.        *)
ProductIsExact ==
  /\ \A row \in 0..(M - 1), col \in Spoilt..(N - 1) :
       LET number == c[row * N + col]
       IN  \/ /\ Len(number) >= K /\ (K % Tile = 0 => Len(number) = K)
              /\ \A n \in 1..K : number[n] = <<row * K + (n - 1), StoredAt(n - 1, col)>>
           \/ number = Unwritten /\ \E w \in Warps : k[w] # Stored
  /\ (\A d \in {M, N, K} : d % Tile = 0) => ~stray

AtEnd == \A w \in Warps : k[w] = Stored

(* The kernel ends. *)
KernelEnds == <>AtEnd
=============================================================================
