------------------------------ MODULE ShimPaint ------------------------------
(***************************************************************************)
(* Paints, colour filters and shaders of the ART shim.  A paint lives in a *)
(* slot of a table and is found by its token; its finalizer frees the slot *)
(* for the next paint.  Filters are never freed.  A bitmap shader is       *)
(* stored in a ring indexed by its token, and every shader token, of a     *)
(* gradient too, moves the ring on.                                        *)
(*                                                                         *)
(* A colour is <<alpha, value>>; `extra' stands for text size, stroke and  *)
(* style, which the code copies and keeps together.  `wish' is what the    *)
(* owner of a Java paint last asked for.                                   *)
(***************************************************************************)
EXTENDS Naturals, Sequences, FiniteSets, FiniteSetsExt

CONSTANTS PaintSlots, FilterSlots, ShaderSlots,    \* sizes of the tables
          MaxPaints, MaxFilters, MaxShaders        \* bound: tokens given out

VARIABLES paints, filters, shaders,
          paintToken, filterToken, shaderToken,    \* last token given out
          wish,     \* paint token -> what its owner expects, NoWish when unknown
          source    \* shader token -> the bitmap it was created for

vars == <<paints, filters, shaders, paintToken, filterToken, shaderToken, wish, source>>

Black == <<2, 0>>
Clear == <<0, 0>>
NoWish == [color |-> Clear, filter |-> 0, shader |-> 0, extra |-> 9]
Defaults(color) == [color |-> color, filter |-> 0, shader |-> 0, extra |-> 0]
FreePaint == [token |-> 0, at |-> Defaults(Clear)]

Init == /\ paints = [i \in 1..PaintSlots |-> FreePaint]
        /\ filters = [i \in 1..FilterSlots |-> [token |-> 0, color |-> Clear]]
        /\ shaders = [i \in 0..ShaderSlots-1 |-> [token |-> 0, bitmap |-> 0]]
        /\ paintToken = 0 /\ filterToken = 0 /\ shaderToken = 0
        /\ wish = [t \in 1..MaxPaints |-> NoWish]
        /\ source = [t \in 1..MaxShaders |-> 0]

Paint(t) == {i \in 1..PaintSlots : t # 0 /\ paints[i].token = t}
Filter(t) == {i \in 1..FilterSlots : t # 0 /\ filters[i].token = t}
Shader(t) == {i \in 0..ShaderSlots-1 : t # 0 /\ shaders[i].token = t}
Others == UNCHANGED <<filters, shaders, filterToken, shaderToken, source>>

----
(* Paint                                                                   *)

FreePaints == {i \in 1..PaintSlots : paints[i].token = 0}

\* Mutant: the shader of the slot's last paint stays.
NewPaintKeepsShader(i, color) ==
    [token |-> paintToken + 1, at |-> [Defaults(color) EXCEPT !.shader = paints[i].at.shader]]
\* muplar_alloc_paint(): every attribute is set again in the slot.
NewPaint(i, color) == [token |-> paintToken + 1, at |-> Defaults(color)]

\* nInit; nInitWithPaint copies the paint src when it is found.  Without a free
\* slot the token is given out all the same, and stands for no paint.
InitPaint(src) ==
    LET copied == {paints[i].at : i \in Paint(src)}
        i == Min(FreePaints) IN
    /\ paintToken < MaxPaints /\ paintToken' = paintToken + 1
    /\ IF FreePaints = {} THEN UNCHANGED <<paints, wish>>
       ELSE /\ paints' = [paints EXCEPT ![i] = IF copied = {} THEN NewPaint(i, Black)
                            ELSE [token |-> paintToken', at |-> CHOOSE a \in copied : TRUE]]
            /\ wish' = [wish EXCEPT ![paintToken'] =
                          IF copied = {} THEN Defaults(Black) ELSE wish[src]]
    /\ Others

\* A setter: what it does to the attributes of a paint that is found.
Change(t, F(_)) ==
    /\ Paint(t) # {}
    /\ paints' = [i \in 1..PaintSlots |-> IF i \in Paint(t)
                     THEN [paints[i] EXCEPT !.at = F(@)] ELSE paints[i]]
    /\ wish' = [wish EXCEPT ![t] = F(@)]
    /\ UNCHANGED paintToken /\ Others

SetColor(t, c) == Change(t, LAMBDA a : [a EXCEPT !.color = c])
SetAlpha(t, alpha) == Change(t, LAMBDA a : [a EXCEPT !.color = <<alpha, @[2]>>])
SetExtra(t, v) == Change(t, LAMBDA a : [a EXCEPT !.extra = v])
SetShader(t, s) == Change(t, LAMBDA a : [a EXCEPT !.shader = s])
SetColorFilter(t, f) == Change(t, LAMBDA a : [a EXCEPT !.filter = f])
\* nReset leaves text size, stroke and style.
ResetPaint(t) == Change(t, LAMBDA a : [a EXCEPT !.color = Clear, !.filter = 0, !.shader = 0])

\* nSet: nothing when one of the two is not found.
SetPaint(dst, src) ==
    /\ Paint(dst) # {} /\ Paint(src) # {}
    /\ LET at == paints[CHOOSE i \in Paint(src) : TRUE].at IN
       /\ paints' = [i \in 1..PaintSlots |-> IF i \in Paint(dst)
                        THEN [paints[i] EXCEPT !.at = at] ELSE paints[i]]
       /\ wish' = [wish EXCEPT ![dst] = wish[src]]
    /\ UNCHANGED paintToken /\ Others

\* muplar_paint_free(), the finalizer: only the token is cleared.
FreePaintOf(t) ==
    /\ Paint(t) # {}
    /\ paints' = [i \in 1..PaintSlots |-> IF i \in Paint(t)
                     THEN [paints[i] EXCEPT !.token = 0] ELSE paints[i]]
    /\ wish' = [wish EXCEPT ![t] = NoWish]
    /\ UNCHANGED paintToken /\ Others

----
(* Filters and shaders                                                     *)

FreeFilters == {i \in 1..FilterSlots : filters[i].token = 0}

\* A blend mode filter; a lighting or matrix filter (no colour) takes a token only.
CreateFilter(c) ==
    /\ filterToken < MaxFilters /\ filterToken' = filterToken + 1
    /\ filters' = IF c = Clear \/ FreeFilters = {} THEN filters
                  ELSE [filters EXCEPT ![Min(FreeFilters)] = [token |-> filterToken', color |-> c]]
    /\ UNCHANGED <<paints, shaders, paintToken, shaderToken, wish, source>>

RingSlot(t) == t % ShaderSlots
\* bitmap = 0: a gradient.
CreateShader(bitmap) ==
    /\ shaderToken < MaxShaders /\ shaderToken' = shaderToken + 1
    /\ source' = [source EXCEPT ![shaderToken'] = bitmap]
    /\ shaders' = IF bitmap = 0 THEN shaders
                  ELSE [shaders EXCEPT ![RingSlot(shaderToken')] =
                          [token |-> shaderToken', bitmap |-> bitmap]]
    /\ UNCHANGED <<paints, filters, paintToken, filterToken, wish>>

Next ==
    \/ \E src \in 0..paintToken : InitPaint(src)
    \/ \E t \in 1..paintToken :
          \/ SetColor(t, <<1, 1>>) \/ SetAlpha(t, 1) \/ SetExtra(t, 1)
          \/ \E s \in 0..shaderToken : SetShader(t, s)
          \/ \E f \in 0..filterToken : SetColorFilter(t, f)
          \/ ResetPaint(t) \/ FreePaintOf(t)
          \/ \E src \in 1..paintToken : SetPaint(t, src)
    \/ CreateFilter(<<2, 2>>)
    \/ \E b \in 0..1 : CreateShader(b)

Spec == Init /\ [][Next]_vars

----
Attributes == [color : (0..2) \X (0..2), filter : 0..MaxFilters, shader : 0..MaxShaders,
               extra : {0, 1, 9}]
TypeOK == /\ \A i \in 1..PaintSlots : /\ paints[i].token \in 0..paintToken
                                      /\ paints[i].at \in Attributes
          /\ wish \in [1..MaxPaints -> Attributes]

\* A paint that is found has what its owner asked for and nothing of another
\* paint: not of the one whose freed slot it got, not of one copied from or to
\* it later; a token has at most one slot, and a freed one has none.
PaintsAreTheirOwn ==
    \A t \in 1..MaxPaints :
        /\ Cardinality(Paint(t)) <= 1
        /\ \A i \in Paint(t) : paints[i].at = wish[t]
        /\ wish[t] = NoWish => Paint(t) = {}

\* A shader token finds the bitmap it was created for or nothing, and finds it
\* while fewer shaders than the ring has slots were created after it, gradients
\* counted.
ShadersFindTheirBitmap ==
    \A t \in 1..shaderToken :
        /\ \A i \in Shader(t) : shaders[i].bitmap = source[t]
        /\ source[t] # 0 /\ shaderToken - t < ShaderSlots => Shader(t) # {}

\* Paints keep their owners' attributes and shaders their bitmap.
PaintSound == PaintsAreTheirOwn /\ ShadersFindTheirBitmap
=============================================================================
