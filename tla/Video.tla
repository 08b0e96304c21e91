------------------------------- MODULE Video -------------------------------
(***************************************************************************)
(* Drawing, from a surface of libminiSDL (video.c) to the screen by way of *)
(* the frame buffer that libndl keeps in every program (NDL.c).            *)
(*                                                                         *)
(* A surface of 32 bits holds words, one of 8 bits indices of its palette. *)
(* A word is the sequence of its three low bytes, the lowest first:        *)
(* <<b, g, r>> in a pixel and on the screen, <<r, g, b>> in a palette.     *)
(* Pixels are found by the index arithmetic of the code.                   *)
(***************************************************************************)
EXTENDS Integers, Sequences, SequencesExt, FiniteSetsExt

CONSTANTS ScreenW, ScreenH,
          Black,        \* the word 0
          Garbage       \* what malloc() returns

ASSUME VideoAssumption == ScreenW \in Nat \ {0} /\ ScreenH \in Nat \ {0}

NoRect == [x |-> 0, y |-> 0, w |-> 0, h |-> 0]      \* NULL means the same

(* NDL_OpenCanvas() and SDL_SetVideoMode(): the canvas is no larger than   *)
(* the screen.  The frame buffer is black, the surface is not cleared.     *)
Fitting(size, screen) == IF size > screen \/ size = 0 THEN screen ELSE size

SDL_SetVideoMode(width, height, bits, palette) ==
  LET w == Fitting(width, ScreenW)
      h == Fitting(height, ScreenH)
  IN  [w |-> w, h |-> h, bits |-> bits, palette |-> palette,
       pixels |-> [c \in 0 .. w * h - 1 |-> Garbage]]

NDL_OpenCanvas(s) ==
  LET black == [c \in 0 .. ScreenW * ScreenH - 1 |-> Black]
  IN  [w |-> s.w, h |-> s.h, fb |-> black, screen |-> black]

----------------------------------------------------------------------------
RectOf(r, s) ==
  [r EXCEPT !.w = IF @ = 0 THEN s.w ELSE @, !.h = IF @ = 0 THEN s.h ELSE @]

(* The size of what is copied, and the assertions on it.                   *)
Common(src, srcrect, dst, dstrect) ==
  LET from == RectOf(srcrect, src)
      to   == RectOf(dstrect, dst)
  IN  [w |-> Min({from.w, to.w}), h |-> Min({from.h, to.h})]

Inside(src, srcrect, dst, dstrect) ==
  LET size == Common(src, srcrect, dst, dstrect) IN
  /\ srcrect.x + size.w <= src.w /\ srcrect.y + size.h <= src.h
  /\ dstrect.x + size.w <= dst.w /\ dstrect.y + size.h <= dst.h

(* The places of a rectangle, and old with new[p] stored for its place p   *)
(* at index at[p].                                                         *)
Places(w, h) == (0 .. w - 1) \X (0 .. h - 1)

Stored(old, at, new) ==
  [c \in DOMAIN old |->
     LET hit == {p \in DOMAIN at : at[p] = c}
     IN  IF hit = {} THEN old[c] ELSE new[CHOOSE p \in hit : TRUE]]

(* Where the places of a rectangle at x, y are in rows of the given width. *)
Index(width, x, y, w, h) ==
  [p \in Places(w, h) |-> width * (y + p[2]) + x + p[1]]

SDL_BlitSurface(src, srcrect, dst, dstrect) ==
  LET size == Common(src, srcrect, dst, dstrect)
      to   == Index(dst.w, dstrect.x, dstrect.y, size.w, size.h)
      from == Index(src.w, srcrect.x, srcrect.y, size.w, size.h)
  IN  [dst EXCEPT !.pixels = Stored(@, to, [p \in DOMAIN from |-> src.pixels[from[p]]])]

SDL_FillRect(dst, dstrect, color) ==
  LET r == RectOf(dstrect, dst)
      pixel == IF dst.bits = 32 THEN color
               ELSE Min({i \in DOMAIN dst.palette : dst.palette[i] = color})
      to == Index(dst.w, r.x, r.y, r.w, r.h)
  IN  [dst EXCEPT !.pixels = Stored(@, to, [p \in DOMAIN to |-> pixel])]

----------------------------------------------------------------------------
(* A rectangle for the frame buffer.  The screen is written at once, but a *)
(* single row waits until it is the last one of the canvas.                *)
Mut_LastRow(ndl, y) == y = ScreenH - 1          \* mutant: of the screen
LastRow(ndl, y)     == y = ndl.h - 1

NDL_DrawRect(ndl, pixels, x, y, w, h) ==
  LET left == x + (ScreenW - ndl.w) \div 2
      top  == y + (ScreenH - ndl.h) \div 2
      fb   == Stored(ndl.fb, Index(ScreenW, left, top, w, h),
                     [p \in Places(w, h) |-> pixels[p[2] * w + p[1]]])
  IN  [ndl EXCEPT !.fb = fb,
                  !.screen = IF h = 1 /\ ~LastRow(ndl, y) THEN @ ELSE fb]

(* A row of a surface of 8 bits, as words of the screen.                   *)
Row(s, j) == [i \in 0 .. s.w - 1 |-> Reverse(s.palette[s.pixels[j * s.w + i]])]

(* SDL_UpdateRect(s, 0, 0, 0, 0): all of the surface.                      *)
SDL_UpdateRect(ndl, s) ==
  IF s.bits = 32 THEN NDL_DrawRect(ndl, s.pixels, 0, 0, s.w, s.h)
  ELSE FoldLeft(LAMBDA n, j : NDL_DrawRect(n, Row(s, j), 0, j, s.w, 1),
                ndl, [k \in 1 .. s.h |-> k - 1])
=============================================================================
