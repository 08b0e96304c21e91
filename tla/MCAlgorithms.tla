---------------------------- MODULE MCAlgorithms ----------------------------
(* Pure computations over all their inputs up to a bound: expressions,     *)
(* symbol by symbol, the arguments of a program, string by string, and     *)
(* pictures.                                                               *)
EXTENDS Expr, ArgStack, Video

CONSTANTS
  MaxSymbols,     \* bound: the length of an expression
  Few, MaxFew,    \* bound: the length of one made of few symbols
  MaxStrings      \* bound: strings in argv and in envp

VARIABLES e, argv, envp, pic

Strings == { <<>>, <<"x">>, <<"y", "y">> }
Name    == <<"b", "i", "n">>

MCValue  == [x \in {"2", "5", "$r"} |-> CASE x = "2" -> 2 [] x = "5" -> 5
                                          [] OTHER -> Unknown]
MCMemory == [a \in 4 .. 5 |-> 9 - a]

(* What a program draws: the size it asks for, the depth, the picture and  *)
(* the rectangles of SDL_BlitSurface().                                    *)
Rect    == [x : 0 .. 1, y : 0 .. 1, w : 0 .. 1, h : 0 .. 1]
Picture == [w : {0, 1, 2, 3}, h : {0, 1, 2, 5}, bits : {8, 32},
            sw : 1 .. 2, sh : 1 .. 2, srcrect : Rect, dstrect : Rect]
Nothing == [w |-> 0]

Init == e = <<>> /\ argv = <<>> /\ envp = <<>> /\ pic = Nothing

TypeSymbol ==
  /\ argv = <<>> /\ envp = <<>> /\ pic = Nothing
  /\ \E s \in Symbol : e' = Append(e, s)
  /\ Len(e') <= MaxSymbols \/ (Len(e') <= MaxFew /\ ToSet(e') \subseteq Few)
  /\ UNCHANGED <<argv, envp, pic>>

AddArgument ==
  /\ e = <<>> /\ pic = Nothing /\ Len(argv) < MaxStrings
  /\ \E s \in Strings : argv' = Append(argv, s)
  /\ UNCHANGED <<e, envp, pic>>

AddVariable ==
  /\ e = <<>> /\ pic = Nothing /\ Len(envp) < MaxStrings
  /\ \E s \in Strings : envp' = Append(envp, s)
  /\ UNCHANGED <<e, argv, pic>>

DrawPicture ==
  /\ e = <<>> /\ argv = <<>> /\ envp = <<>> /\ pic = Nothing
  /\ pic' \in Picture
  /\ UNCHANGED <<e, argv, envp>>

Next == TypeSymbol \/ AddArgument \/ AddVariable \/ DrawPicture

Spec == Init /\ [][Next]_<<e, argv, envp, pic>>

----------------------------------------------------------------------------
(* The debugger evaluates what the grammar derives, to the word it means,  *)
(* and refuses everything else (expr.c:83-327): no string of symbols is    *)
(* evaluated in another way, or although it is wrong.                      *)
ExprRight ==
  e # <<>> => LET r == expr(e)
              IN  (IF r.ok /\ r.up THEN {r.val} ELSE {}) = Meaning(e, 1)

(* main() gets the file name, the strings of argv and those of envp, each  *)
(* whole and ended, in order, with a null pointer behind both lists        *)
(* (proc.c:60-137, crt0.c:8-17).                                           *)
ArgsArrive ==
  LET st   == context_uload(Name, argv, envp)
      args == <<Name>> \o argv
  IN  /\ argc(st) = Len(args)
      /\ \A i \in 1 .. Len(args) : IsString(st, argv_(st, i - 1), args[i])
      /\ argv_(st, Len(args)) = 0
      /\ \A i \in 1 .. Len(envp) : IsString(st, envp_(st, i - 1), envp[i])
      /\ envp_(st, Len(envp)) = 0

(* A program clears its surface, copies a picture to it and updates the    *)
(* screen: every pixel has its color, the picture where it was put, the    *)
(* rest of the canvas cleared, in the middle of the black screen, for both *)
(* depths and however the rows reach the screen (video.c:8-114,            *)
(* NDL.c:30-106).  Colors are <<r, g, b>>.                                 *)
Color(n)        == <<n, 1, 2>>
WordOf(bits, c) == IF bits = 8 THEN c ELSE Reverse(c)

ScreenShows ==
  pic # Nothing =>
    LET palette == [n \in 0 .. 4 |-> Color(n)]
        canvas  == SDL_SetVideoMode(pic.w, pic.h, pic.bits, palette)
        source  == [w |-> pic.sw, h |-> pic.sh, bits |-> pic.bits, palette |-> palette,
                    pixels |-> [c \in 0 .. pic.sw * pic.sh - 1 |->
                                  IF pic.bits = 8 THEN c + 1 ELSE Reverse(Color(c + 1))]]
        cleared == SDL_FillRect(canvas, NoRect, WordOf(pic.bits, Color(0)))
        drawn   == SDL_BlitSurface(source, pic.srcrect, cleared, pic.dstrect)
        ndl     == SDL_UpdateRect(NDL_OpenCanvas(canvas), drawn)
        size    == Common(source, pic.srcrect, canvas, pic.dstrect)
        left    == (ScreenW - canvas.w) \div 2
        top     == (ScreenH - canvas.h) \div 2
        Shown(x, y) ==
          LET i == x - left - pic.dstrect.x
              j == y - top - pic.dstrect.y
          IN  IF x - left \notin 0 .. canvas.w - 1 \/ y - top \notin 0 .. canvas.h - 1
                THEN Black
              ELSE IF i \in 0 .. size.w - 1 /\ j \in 0 .. size.h - 1
                THEN Reverse(Color((pic.srcrect.y + j) * pic.sw + pic.srcrect.x + i + 1))
              ELSE Reverse(Color(0))
    IN  Inside(source, pic.srcrect, canvas, pic.dstrect) =>
          \A x \in 0 .. ScreenW - 1, y \in 0 .. ScreenH - 1 :
            ndl.screen[y * ScreenW + x] = Shown(x, y)
=============================================================================
