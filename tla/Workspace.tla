----------------------------- MODULE Workspace -----------------------------
(***************************************************************************)
(* The files tools write for a conversation (tools/partner_integration.py, *)
(* tools/file_export.py) and how the engine sends them to the user         *)
(* (core/chat_engine.py).  The packager saves files in a directory of the  *)
(* conversation and packs them over a template into a ZIP, by way of a     *)
(* staging directory that all packagings of the conversation share.  A     *)
(* call without a conversation id works on the directory "default".  All   *)
(* calls name the same partner, and all exports the same file.             *)
(*                                                                         *)
(* A file on disk is a number: 0 absent, 2k its k-th saved text, 2k + 1    *)
(* what is there while the next text is being written.                     *)
(***************************************************************************)
EXTENDS Naturals, FiniteSets

CONSTANTS Files,          \* paths
          RequiredFiles,  \* _REQUIRED_FILES and a converter
          BaseFiles,      \* paths of the template
          Conv,           \* the conversation
          DefaultDir,     \* "default"
          Packers,        \* calls of package_project and export_*
          MaxSaves,       \* bound: texts saved of a file
          Saved           \* bound: <<directory, file>> that save_file is called for

ASSUME WorkspaceAssumption ==
  /\ RequiredFiles \subseteq Files /\ BaseFiles \subseteq Files
  /\ IsFiniteSet(Files) /\ DefaultDir # Conv /\ MaxSaves \in Nat
  /\ Saved \subseteq {Conv, DefaultDir} \X Files

VARIABLES
  disk,       \* the workspace directories
  staging,    \* the _staging directories: [there, files]
  zip,        \* the packed file of a directory, if there is one
  exported,   \* the exported file of a directory: the call that wrote it last
  packing     \* the calls in progress

workspaceVars == <<disk, staging, zip, exported, packing>>

Dirs == {Conv, DefaultDir}
Template == 1000                  \* what a template's file holds
Nothing == [f \in Files |-> 0]
NoCall == [at |-> "new", dir |-> Conv, todo |-> {}, must |-> Nothing, overlapped |-> FALSE,
           sent |-> {}]

WorkspaceInit ==
  /\ disk = [d \in Dirs |-> Nothing]
  /\ staging = [d \in Dirs |-> [there |-> FALSE, files |-> Nothing]]
  /\ zip = [d \in Dirs |-> {}]
  /\ exported = [d \in Dirs |-> {}]
  /\ packing = [p \in Packers |-> NoCall]

\* _workspace_dir, _artifact_dir: the engine gives the conversation's id to the
\* calls of tools it has offered; other calls arrive without one.
WorkspaceDir(given) == IF given THEN Conv ELSE DefaultDir

Present(d) == {f \in Files : disk[d][f] > 0}

-----------------------------------------------------------------------------
\* save_file: the file is opened, which empties it, and then written.
OpenFile(d, f) ==
  /\ disk[d][f] % 2 = 0 /\ disk[d][f] < 2 * MaxSaves
  /\ disk' = [disk EXCEPT ![d][f] = @ + 1]
  /\ UNCHANGED <<staging, zip, exported, packing>>
WriteFile(d, f) ==
  /\ disk[d][f] % 2 = 1
  /\ disk' = [disk EXCEPT ![d][f] = @ + 1]
  /\ UNCHANGED <<staging, zip, exported, packing>>

-----------------------------------------------------------------------------
\* Mutant: the completeness gate is left out.
NothingMissing(d) == {}

\* _missing_required: the files the gate asks for.
Missing(d) == RequiredFiles \ Present(d)

\* At work for a directory, or with the result still on the way.
Live(p) == packing[p].at \notin {"new", "refused", "failed", "sent", "delivered"}

\* A call starts; it and the live ones of its directory are marked.
Starting(p, call) ==
  LET others == {q \in Packers : Live(q) /\ packing[q].dir = call.dir}
  IN  [q \in Packers |-> IF q = p THEN [call EXCEPT !.overlapped = others # {}]
                         ELSE [packing[q] EXCEPT !.overlapped = @ \/ q \in others]]

\* What a file held when it was last written to the end.
Settled(n) == n - (n % 2)

\* package_project: the gates.
StartPacking(p, given) ==
  LET d == WorkspaceDir(given)
  IN  /\ packing[p].at = "new"
      /\ packing' = Starting(p, [NoCall EXCEPT !.dir = d,
           !.must = [f \in Files |-> Settled(disk[d][f])],
           !.at = IF Present(d) = {} \/ Missing(d) # {} THEN "refused" ELSE "clear"])
      /\ UNCHANGED <<disk, staging, zip, exported>>

Go(p, step) == packing' = [packing EXCEPT ![p].at = step]

\* _build_zip: an old staging directory is removed.
ClearStaging(p) ==
  /\ packing[p].at = "clear"
  /\ staging' = [staging EXCEPT ![packing[p].dir] = [there |-> FALSE, files |-> Nothing]]
  /\ Go(p, "copy")
  /\ UNCHANGED <<disk, zip, exported>>

\* The template is copied, to a directory that must not exist yet; then the
\* files of the workspace are listed.
CopyTemplate(p) ==
  LET d == packing[p].dir
  IN  /\ packing[p].at = "copy"
      /\ ~staging[d].there
      /\ staging' = [staging EXCEPT ![d] =
           [there |-> TRUE, files |-> [f \in Files |-> IF f \in BaseFiles THEN Template ELSE 0]]]
      /\ packing' = [packing EXCEPT ![p].at = "overlay", ![p].todo = Present(d)]
      /\ UNCHANGED <<disk, zip, exported>>

\* One file after the other is copied over it, into a directory made anew if it
\* has gone.
OverlayFile(p) ==
  LET d == packing[p].dir
  IN  /\ packing[p].at = "overlay"
      /\ \E f \in packing[p].todo :
           /\ staging' = [staging EXCEPT ![d] =
                [there |-> TRUE, files |-> [@.files EXCEPT ![f] = disk[d][f]]]]
           /\ packing' = [packing EXCEPT ![p].todo = @ \ {f}]
      /\ UNCHANGED <<disk, zip, exported>>

\* The old ZIP goes, the new one is written from what staging holds.
RemoveZip(p) ==
  /\ packing[p].at = "overlay" /\ packing[p].todo = {}
  /\ zip' = [zip EXCEPT ![packing[p].dir] = {}]
  /\ Go(p, "compress")
  /\ UNCHANGED <<disk, staging, exported>>
Compress(p) ==
  LET d == packing[p].dir
  IN  /\ packing[p].at = "compress"
      /\ zip' = [zip EXCEPT ![d] = {staging[d].files}]
      /\ Go(p, "cleanup")
      /\ UNCHANGED <<disk, staging, exported>>

\* rmtree after the compression, errors ignored; the call reports success.
CleanUp(p) ==
  /\ packing[p].at = "cleanup"
  /\ staging' = [staging EXCEPT ![packing[p].dir] = [there |-> FALSE, files |-> Nothing]]
  /\ Go(p, "packaged")
  /\ UNCHANGED <<disk, zip, exported>>

\* Any of these steps may fail, or find the directory another call has made, and
\* the staging directory stays as it is; or nobody waits for the result any more.
PackingFails(p) ==
  /\ packing[p].at \in {"clear", "copy", "overlay", "compress", "packaged"}
  /\ packing' = [packing EXCEPT ![p] = [NoCall EXCEPT !.at = "failed"]]
  /\ UNCHANGED <<disk, staging, zip, exported>>

\* _extract_artifact_meta, artifact_b64: after the result the engine reads the
\* file, from the conversation's directory whatever the call was given.
SendPackage(p) ==
  /\ packing[p].at = "packaged"
  /\ packing' = [packing EXCEPT ![p].at = "sent", ![p].sent = zip[Conv]]
  /\ UNCHANGED <<disk, staging, zip, exported>>

-----------------------------------------------------------------------------
\* export_csv, export_xlsx, export_docx: a table the model got wrong is an
\* error; else the file is written, over an older one of its name, and sent.
Export(p, given) ==
  /\ packing[p].at = "new"
  /\ \/ Go(p, "failed") /\ UNCHANGED exported
     \/ /\ exported' = [exported EXCEPT ![WorkspaceDir(given)] = {p}]
        /\ packing' = Starting(p, [NoCall EXCEPT !.at = "exported", !.dir = WorkspaceDir(given)])
  /\ UNCHANGED <<disk, staging, zip>>
SendExport(p) ==
  /\ packing[p].at = "exported"
  /\ packing' = [packing EXCEPT ![p].at = "delivered", ![p].sent = exported[Conv]]
  /\ UNCHANGED <<disk, staging, zip, exported>>

WorkspaceNext ==
  \/ \E s \in Saved : OpenFile(s[1], s[2]) \/ WriteFile(s[1], s[2])
  \/ \E p \in Packers :
       \/ \E given \in BOOLEAN : StartPacking(p, given) \/ Export(p, given)
       \/ ClearStaging(p) \/ CopyTemplate(p) \/ OverlayFile(p) \/ RemoveZip(p)
       \/ Compress(p) \/ CleanUp(p) \/ PackingFails(p) \/ SendPackage(p) \/ SendExport(p)

WorkspaceSpec == WorkspaceInit /\ [][WorkspaceNext]_workspaceVars

-----------------------------------------------------------------------------
\* What is sent for a call of the conversation that no other call of it
\* overlapped is what that call wrote.  A package holds the whole template, every
\* required file, and every file as it was saved before the call or as a save
\* meanwhile has left it: saves run beside the packaging, and an earlier one may
\* have failed at any step (partner_integration.py 114-185, 494-508;
\* chat_engine.py 907-923).
PackageComplete ==
  \A p \in Packers :
    packing[p].dir = Conv /\ ~packing[p].overlapped =>
      /\ packing[p].at = "delivered" => packing[p].sent = {p}
      /\ packing[p].at = "sent" =>
           \E z \in packing[p].sent :
             /\ \A f \in BaseFiles \cup RequiredFiles : z[f] > 0
             /\ \A f \in Files : z[f] >= packing[p].must[f]
=============================================================================
