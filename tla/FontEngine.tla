------------------------------- MODULE FontEngine ------------------------------
(***************************************************************************)
(* MSDFMode and the FreeType functions it redirects.  The CVar attaches a  *)
(* hook to the client's FreeType_Init; the first call of that hook         *)
(* redirects the other functions to a FreeType of this library's own and   *)
(* decides for good whether unsafe fonts are allowed.  An MSDFFont hangs on *)
(* a face of that FreeType and on msdfgen's library.                       *)
(*                                                                         *)
(* The client opens a library when it has none, and closes it with or      *)
(* without closing its faces first.  A face's address may be used again.   *)
(***************************************************************************)
EXTENDS Naturals

CONSTANTS Faces,       \* addresses of faces
          Files,       \* font files: records [name, outline, safe, listed]
          MaxAttached, \* bound on the attaches to FreeType_Init
          MaxLibraries \* bound on the libraries opened

VARIABLES mode,        \* g_MSDFMode
          attached,    \* attaches outstanding on FreeType_Init
          initialized, \* MSDF::INITIALIZED
          unsafe,      \* MSDF::ALLOW_UNSAFE_FONTS
          cjk,         \* MSDF::IS_CJK once initialized: the locale's
          redirected,  \* the other functions are hooked
          library,     \* the client's library: "none", "client" or "real"
          msdf,        \* msdfgen's library, 0 for none; numbered
          opened,      \* number of the last one
          faces,       \* the open faces: whose FreeType made them, from what
          fonts        \* s_fontHandles: file and msdfgen library of each font

vars == <<mode, attached, initialized, unsafe, cjk, redirected, library, msdf, opened, faces, fonts>>
settings == <<mode, attached>>
latched == <<initialized, unsafe, cjk, redirected>>
libraries == <<library, msdf, opened>>

TypeOK ==
    /\ mode \in 0..2 /\ attached \in 0..MaxAttached
    /\ {initialized, unsafe, cjk, redirected} \subseteq BOOLEAN
    /\ library \in {"none", "client", "real"}
    /\ opened \in 0..MaxLibraries /\ msdf \in 0..opened
    /\ DOMAIN faces \subseteq Faces
    /\ \A f \in DOMAIN faces : faces[f].maker \in {"client", "real"} /\ faces[f].file \in Files
    /\ DOMAIN fonts \subseteq Faces
    /\ \A f \in DOMAIN fonts : fonts[f].file \in Files /\ fonts[f].msdf \in 1..opened

Init ==
    /\ mode = 1 /\ attached = 0
    /\ initialized = FALSE /\ unsafe = FALSE /\ redirected = FALSE
    /\ cjk \in BOOLEAN
    /\ library = "none" /\ msdf = 0 /\ opened = 0
    /\ faces = <<>> /\ fonts = <<>>

Without(f, k) == [i \in DOMAIN f \ {k} |-> f[i]]
With(f, k, v) == [i \in DOMAIN f \cup {k} |-> IF i = k THEN v ELSE f[i]]

-------------------------------------------------------------------------------
\* CVarHandler_MSDFMode attaches and never detaches.
CVarHandler_MSDFMode(v) ==
    /\ mode' = v
    /\ attached' = IF v = 0 THEN attached ELSE attached + 1
    /\ attached' <= MaxAttached
    /\ UNCHANGED <<latched, libraries, faces, fonts>>

\* FreeType_InitHk: the first call looks at the locale and the mode.  With an
\* East Asian locale everything stays with the client.
FreeType_InitHk ==
    /\ initialized' = TRUE
    /\ unsafe' = IF initialized THEN unsafe ELSE mode = 2
    /\ redirected' = (redirected \/ (~initialized /\ ~cjk))
    /\ IF cjk THEN library' = "client" /\ UNCHANGED <<msdf, opened>>
       ELSE \/ /\ library' = "real"
               /\ opened < MaxLibraries
               /\ opened' = opened + 1 /\ msdf' = opened'
            \/ library' = "none" /\ msdf' = 0 /\ UNCHANGED opened  \* either fails
    /\ UNCHANGED cjk

\* The client opens a library.
FreeType_Init ==
    /\ library = "none"
    /\ IF attached > 0 THEN FreeType_InitHk
       ELSE library' = "client" /\ UNCHANGED <<latched, msdf, opened>>
    /\ UNCHANGED <<settings, faces, fonts>>

\* MSDFFont's constructor and Register: a blacklisted font, one that msdfgen
\* cannot read or whose contours cross is not registered.  A face that has a
\* font keeps it.
Register(f, file) ==
    fonts' = IF f \in DOMAIN fonts \/ file.listed \/ msdf = 0 \/ ~file.outline
                  \/ ~(unsafe \/ file.safe)
             THEN fonts ELSE With(fonts, f, [file |-> file, msdf |-> msdf])

\* FreeType_NewMemoryFaceHk, or the client's function.
NewMemoryFace(f, file) ==
    /\ library # "none" /\ f \notin DOMAIN faces
    /\ faces' = With(faces, f, [maker |-> IF redirected THEN "real" ELSE "client", file |-> file])
    /\ IF redirected THEN Register(f, file) ELSE UNCHANGED fonts
    /\ UNCHANGED <<settings, latched, libraries>>

\* mutant: the font stays registered
Done_FaceKeepsFont(f) ==
    /\ f \in DOMAIN faces /\ faces' = Without(faces, f)
    /\ UNCHANGED <<fonts, settings, latched, libraries>>

\* FreeType_Done_FaceHk unregisters the face's font.
Done_Face(f) ==
    /\ f \in DOMAIN faces /\ faces' = Without(faces, f)
    /\ fonts' = IF redirected THEN Without(fonts, f) ELSE fonts
    /\ UNCHANGED <<settings, latched, libraries>>

\* FreeType_Done_FreeTypeHk: all fonts go before the libraries they hang on.
Done_FreeType ==
    /\ library # "none" /\ library' = "none"
    /\ faces' = <<>>
    /\ fonts' = IF redirected THEN <<>> ELSE fonts
    /\ msdf' = IF redirected THEN 0 ELSE msdf
    /\ UNCHANGED <<settings, latched, opened>>

Next ==
    \/ \E v \in 0..2 : CVarHandler_MSDFMode(v)
    \/ FreeType_Init \/ Done_FreeType
    \/ \E f \in Faces : Done_Face(f) \/ \E file \in Files : NewMemoryFace(f, file)

Spec == Init /\ [][Next]_vars

-------------------------------------------------------------------------------
\* Properties.

\* No library is handed what another one made.  Every function that gets an
\* open face is of the FreeType that made it, through any sequence of mode
\* changes and restarts of the text system (MSDF.cpp:457-498, 554-562); and a
\* font that MSDFFont::Get would return is of a face that is open, of that
\* face's own file, with a handle of the msdfgen library that is open, also
\* when the client closes its library but not its faces (MSDFFont.cpp:29-57,
\* MSDF.cpp:434-450).
FacesStayHome ==
    \A f \in DOMAIN faces : faces[f].maker = IF redirected THEN "real" ELSE "client"

FontsAreLive ==
    \A f \in DOMAIN fonts : /\ f \in DOMAIN faces /\ faces[f].file = fonts[f].file
                            /\ fonts[f].msdf = msdf

HandlesStayHome == FacesStayHome /\ FontsAreLive
===============================================================================
