----------------------------- MODULE ReorderedMS -----------------------------
(***************************************************************************)
(* A measurement set that is reordered into files before it is imaged:     *)
(* msproviders/partitionedms.cpp.                                          *)
(*                                                                         *)
(* Partition writes, per part (a range of channels of one spectral window) *)
(* and per polarization, files with data, weights and model, and per       *)
(* spectral window a file with the metadata of its rows.  A provider reads *)
(* one part row by row, seeking back when a row is read again and forward  *)
(* when a row was not read, and writes predicted model visibilities.  When *)
(* the last handle is released the model files are written back to the     *)
(* set, and removed.                                                       *)
(*                                                                         *)
(* A file is the sequence of its rows, and a file position the number of   *)
(* rows before it.  The four polarizations per file of the IDG gridder and *)
(* the simulation of noise are left out.                                   *)
(***************************************************************************)
EXTENDS MSProvider

CONSTANT Setups   \* the sets and command lines of an instance, see SetupType

VARIABLES
  setup,        \* the set, its selection, and what is asked for
  phase,        \* "partition", "image" or "done"
  cursor,       \* the row provider's place in the set
  partFiles,    \* per part and polarization the files "data", "weights" and "model"
  metaFiles,    \* per index of a spectral window the file of its rows
  modelColumn,  \* MODEL_DATA of the set
  reader,       \* the provider that is open, or NoReader
  lastRead,          \* what the last read of the provider gave
  predicted     \* history: the <<file, rowId, channel>> whose model was predicted

reorderedVars == <<setup, phase, cursor, partFiles, metaFiles, modelColumn, reader, lastRead, predicted>>

NoReader == [file |-> <<>>]
NothingRead == [what |-> "nothing"]

\* The parts, as in ChannelRange: [dd, start, end), channels counted from 0.
Part(file) == setup.channels[file[1]]
ChannelsOf(part) == part.start .. part.end - 1
Files == (1 .. Len(setup.channels)) \X setup.want

\* getDataDescIdMap: spectral windows are numbered as they occur in the parts.
DataDescIds(channels) == {channels[k].dd : k \in 1 .. Len(channels)}
SpwIndexMap(channels) ==
  [dd \in DataDescIds(channels) |->
     LET first == CHOOSE k \in 1 .. Len(channels) :
                    channels[k].dd = dd /\ \A j \in 1 .. k - 1 : channels[j].dd # dd
     IN  Cardinality({channels[j].dd : j \in 1 .. first - 1})]

SpwIndex(dd) == SpwIndexMap(setup.channels)[dd]
SelectedDDs == DataDescIds(setup.channels)
SelectedRowCount(file) == Len(metaFiles[SpwIndex(Part(file).dd)])

MetaRecord(row) == [dd |-> row.dd, field |-> row.field, a1 |-> row.a1, a2 |-> row.a2,
                    time |-> row.time, uvw |-> row.uvw]

\* What is predicted for a channel of a row: any value, all different, divisible by two.
Prediction(file, rowId, ch) ==
  LET pol == CHOOSE k \in 1 .. 12 : AllPolarizations[k] = file[2]
  IN  <<8 * (100 * file[1] + 40 * pol + 4 * rowId + ch + 1), 0>>

ReorderedInit ==
  /\ setup \in Setups
  /\ phase = "partition"
  /\ cursor = FirstCursor(setup.ms, setup.selection, DataDescIds(setup.channels))
  /\ partFiles = [f \in (1 .. Len(setup.channels)) \X setup.want |->
                    [data |-> <<>>, weights |-> <<>>, model |-> <<>>]]
  /\ metaFiles = [i \in 0 .. Cardinality(DataDescIds(setup.channels)) - 1 |-> <<>>]
  /\ modelColumn = setup.model
  /\ reader = NoReader
  /\ lastRead = NothingRead
  /\ predicted = {}

-----------------------------------------------------------------------------
(* Partition *)

RowChunks(file, r) ==
  LET channels == ChannelsOf(Part(file))
      pol == file[2]
  IN  [data |-> [ch \in channels |-> CopyData(pol, setup.have, setup.data[r][ch])],
       weights |-> [ch \in channels |->
                      CopyWeight(pol, setup.have, setup.data[r][ch], setup.weights[r][ch], setup.flags[r][ch])],
       model |-> [ch \in channels |-> CopyData(pol, setup.have, setup.model[r][ch])]]

PartitionRow ==
  /\ phase = "partition"
  /\ ~RowProviderAtEnd(setup.ms, setup.selection, cursor)
  /\ LET row == setup.ms[cursor.row]
     IN  /\ metaFiles' = [metaFiles EXCEPT ![SpwIndex(row.dd)] = Append(@, MetaRecord(row))]
         /\ partFiles' = [f \in Files |->
              IF Part(f).dd # row.dd THEN partFiles[f]
              ELSE LET chunk == RowChunks(f, cursor.row)
                   IN  [data |-> Append(partFiles[f].data, chunk.data),
                        weights |-> Append(partFiles[f].weights, chunk.weights),
                        model |-> IF setup.initialModelRequired
                                    THEN Append(partFiles[f].model, chunk.model) ELSE <<>>]]
  /\ cursor' = NextSelected(setup.ms, setup.selection, SelectedDDs, cursor)
  /\ UNCHANGED <<setup, phase, modelColumn, reader, lastRead, predicted>>

\* The headers are written, and a model file with zeros unless it was read from the set.
ZeroModel(file) ==
  [i \in 1 .. SelectedRowCount(file) |-> [ch \in ChannelsOf(Part(file)) |-> Zero]]

FinishPartition ==
  /\ phase = "partition"
  /\ RowProviderAtEnd(setup.ms, setup.selection, cursor)
  /\ phase' = "image"
  /\ partFiles' = IF setup.includeModel /\ ~setup.initialModelRequired
                    THEN [f \in Files |-> [partFiles[f] EXCEPT !.model = ZeroModel(f)]]
                    ELSE partFiles
  /\ UNCHANGED <<setup, cursor, metaFiles, modelColumn, reader, lastRead, predicted>>

-----------------------------------------------------------------------------
(* PartitionedMS, the provider *)

AtStart(file) == [file |-> file, row |-> 0, dataPos |-> 0, metaPos |-> 0, weightPos |-> 0,
                  readPtrIsOk |-> TRUE, metaPtrIsOk |-> TRUE, weightPtrIsOk |-> TRUE]

Open ==
  /\ phase = "image" /\ reader = NoReader
  /\ \E file \in Files : reader' = AtStart(file)
  /\ UNCHANGED <<setup, phase, cursor, partFiles, metaFiles, modelColumn, lastRead, predicted>>

Reset ==
  /\ reader # NoReader
  /\ reader' = AtStart(reader.file)
  /\ UNCHANGED <<setup, phase, cursor, partFiles, metaFiles, modelColumn, lastRead, predicted>>

CurrentRowAvailable == reader # NoReader /\ reader.row < SelectedRowCount(reader.file)

\* Where a file is read: one row back if this row was read already.
FilePosition(position, isOk) == IF isOk THEN position ELSE position - 1

Got(what, value) == lastRead' = [what |-> what, row |-> reader.row, file |-> reader.file, value |-> value]

ReadMeta ==
  /\ CurrentRowAvailable
  /\ LET position == FilePosition(reader.metaPos, reader.metaPtrIsOk)
     IN  /\ Got("meta", metaFiles[SpwIndex(Part(reader.file).dd)][position + 1])
         /\ reader' = [reader EXCEPT !.metaPos = position + 1, !.metaPtrIsOk = FALSE]
  /\ UNCHANGED <<setup, phase, cursor, partFiles, metaFiles, modelColumn, predicted>>

ReadData ==
  /\ CurrentRowAvailable
  /\ LET position == FilePosition(reader.dataPos, reader.readPtrIsOk)
     IN  /\ Got("data", partFiles[reader.file].data[position + 1])
         /\ reader' = [reader EXCEPT !.dataPos = position + 1, !.readPtrIsOk = FALSE]
  /\ UNCHANGED <<setup, phase, cursor, partFiles, metaFiles, modelColumn, predicted>>

ReadWeights ==
  /\ CurrentRowAvailable
  /\ LET position == FilePosition(reader.weightPos, reader.weightPtrIsOk)
     IN  /\ Got("weights", partFiles[reader.file].weights[position + 1])
         /\ reader' = [reader EXCEPT !.weightPos = position + 1, !.weightPtrIsOk = FALSE]
  /\ UNCHANGED <<setup, phase, cursor, partFiles, metaFiles, modelColumn, predicted>>

\* The model is mapped into memory and needs no position.
ReadModel ==
  /\ CurrentRowAvailable /\ setup.includeModel
  /\ Got("model", partFiles[reader.file].model[reader.row + 1])
  /\ UNCHANGED <<setup, phase, cursor, partFiles, metaFiles, modelColumn, reader, predicted>>

\* Mutant: data that were not read are not skipped.
NextRowWithoutSkip ==
  /\ CurrentRowAvailable
  /\ reader' = IF reader.row + 1 < SelectedRowCount(reader.file)
                 THEN [reader EXCEPT !.row = @ + 1, !.readPtrIsOk = TRUE,
                         !.metaPtrIsOk = TRUE, !.weightPtrIsOk = TRUE,
                         !.metaPos = IF reader.metaPtrIsOk THEN @ + 1 ELSE @,
                         !.weightPos = IF reader.weightPtrIsOk THEN @ + 1 ELSE @]
                 ELSE [reader EXCEPT !.row = @ + 1]
  /\ UNCHANGED <<setup, phase, cursor, partFiles, metaFiles, modelColumn, lastRead, predicted>>

\* A file that was not read is skipped over.
NextRow ==
  /\ CurrentRowAvailable
  /\ reader' = IF reader.row + 1 < SelectedRowCount(reader.file)
                 THEN [reader EXCEPT !.row = @ + 1, !.readPtrIsOk = TRUE,
                         !.metaPtrIsOk = TRUE, !.weightPtrIsOk = TRUE,
                         !.dataPos = IF reader.readPtrIsOk THEN @ + 1 ELSE @,
                         !.metaPos = IF reader.metaPtrIsOk THEN @ + 1 ELSE @,
                         !.weightPos = IF reader.weightPtrIsOk THEN @ + 1 ELSE @]
                 ELSE [reader EXCEPT !.row = @ + 1]
  /\ UNCHANGED <<setup, phase, cursor, partFiles, metaFiles, modelColumn, lastRead, predicted>>

\* Channels that were not sampled in this pass hold infinity and are not overwritten.
WriteModel ==
  /\ reader # NoReader /\ setup.includeModel
  /\ LET file == reader.file
     IN  \E rowId \in 0 .. SelectedRowCount(file) - 1, finite \in SUBSET ChannelsOf(Part(file)) :
           /\ partFiles' = [partFiles EXCEPT ![file].model[rowId + 1] =
                [ch \in ChannelsOf(Part(file)) |->
                   IF ch \in finite THEN Prediction(file, rowId, ch) ELSE @[ch]]]
           /\ predicted' = predicted \cup {<<file, rowId, ch>> : ch \in finite}
  /\ lastRead' = NothingRead
  /\ UNCHANGED <<setup, phase, cursor, metaFiles, modelColumn, reader>>

Close ==
  /\ reader # NoReader
  /\ reader' = NoReader
  /\ lastRead' = NothingRead
  /\ UNCHANGED <<setup, phase, cursor, partFiles, metaFiles, modelColumn, predicted>>

-----------------------------------------------------------------------------
(* The last handle is released *)

\* The rows that unpartition writes: it goes through the row range by itself.
IsWrittenBack(r) ==
  /\ r \in StartRow(setup.ms, setup.selection) .. EndRow(setup.ms, setup.selection) - 1
  /\ IsSelected(setup.selection, setup.ms[r], TimestepOf(setup.ms, r))
  /\ setup.ms[r].dd \in SelectedDDs

\* The parts of which a row is read.  The code compares the data description id of the
\* part with the number that the map gives to the spectral window of the row.
ReadsPart(r, file) == Part(file).dd = SpwIndex(setup.ms[r].dd)

\* How many rows have been read from a file before row r.
RowsReadBefore(r, file) == Cardinality({q \in 1 .. r - 1 : IsWrittenBack(q) /\ ReadsPart(q, file)})

ParametersOf(r, ch) == {f \in Files : ReadsPart(r, f) /\ ch \in ChannelsOf(Part(f))}

\* The model of one channel of one row: the files are stored one after another, in the
\* order of the parts and of the polarizations.
StoredModel(r, ch) ==
  LET order == InEnumOrder(setup.want)
      after[k \in 0 .. Len(setup.channels) * Len(order)] ==
        IF k = 0 THEN modelColumn[r][ch]
        ELSE LET file == <<(k - 1) \div Len(order) + 1, order[((k - 1) % Len(order)) + 1]>>
             IN  IF file \in ParametersOf(r, ch)
                   THEN ReverseCopyData(file[2], setup.have, after[k - 1],
                          partFiles[file].model[RowsReadBefore(r, file) + 1][ch])
                   ELSE after[k - 1]
  IN  after[Len(setup.channels) * Len(order)]

ModelFilesLongEnough ==
  \A r \in 1 .. Len(setup.ms), f \in Files :
    IsWrittenBack(r) /\ ReadsPart(r, f) => RowsReadBefore(r, f) < Len(partFiles[f].model)

\* ~HandleData.  Reading past the end of a model file throws in the destructor and ends
\* the program before anything else is written.
Release ==
  /\ phase = "image" /\ reader = NoReader
  /\ phase' = IF setup.modelUpdateRequired /\ setup.includeModel /\ ~ModelFilesLongEnough
                THEN "terminated" ELSE "done"
  /\ modelColumn' = IF phase' = "terminated" \/ ~(setup.modelUpdateRequired /\ setup.includeModel)
                      THEN modelColumn
                      ELSE [r \in 1 .. Len(setup.ms) |->
                              IF IsWrittenBack(r)
                                THEN [ch \in DOMAIN modelColumn[r] |-> StoredModel(r, ch)]
                                ELSE modelColumn[r]]
  /\ partFiles' = <<>> /\ metaFiles' = <<>>
  /\ UNCHANGED <<setup, cursor, reader, lastRead, predicted>>

ReorderedNext ==
  \/ PartitionRow \/ FinishPartition
  \/ Open \/ Reset \/ ReadMeta \/ ReadData \/ ReadWeights \/ ReadModel
  \/ NextRow \/ WriteModel \/ Close \/ Release

ReorderedSpec == ReorderedInit /\ [][ReorderedNext]_reorderedVars

-----------------------------------------------------------------------------
(* Properties *)

\* The row of the set that a provider calls row rowId.
RowOfSet(file, rowId) == IdToMSRow(setup.ms, setup.selection, {Part(file).dd})[rowId + 1]

ModelOf(file, rowId, ch) ==
  IF <<file, rowId, ch>> \in predicted THEN Prediction(file, rowId, ch)
  ELSE IF setup.initialModelRequired
         THEN CopyData(file[2], setup.have, setup.model[RowOfSet(file, rowId)][ch])
         ELSE Zero

\* Whatever is read or skipped, read twice or left unread, a provider gives the metadata,
\* the data, the weights and the model of one and the same row of the set, and its rows are
\* the selected rows of its spectral window in their order.
ReadsMatchRow ==
  lastRead # NothingRead /\ phase = "image" =>
    LET r == RowOfSet(lastRead.file, lastRead.row)
        channels == ChannelsOf(Part(lastRead.file))
        pol == lastRead.file[2]
    IN  CASE lastRead.what = "meta" -> lastRead.value = MetaRecord(setup.ms[r])
          [] lastRead.what = "data" ->
               lastRead.value = [ch \in channels |-> CopyData(pol, setup.have, setup.data[r][ch])]
          [] lastRead.what = "weights" ->
               lastRead.value = [ch \in channels |-> CopyWeight(pol, setup.have, setup.data[r][ch],
                                                   setup.weights[r][ch], setup.flags[r][ch])]
          [] lastRead.what = "model" ->
               lastRead.value = [ch \in channels |-> ModelOf(lastRead.file, lastRead.row, ch)]

\* When the handle is released, the model column gives for every part, polarization, row
\* and channel what was predicted for it, or what it held before the imaging, and other rows
\* and channels have not changed: "Writing changed model back to" the measurement set.
ModelReachesSet ==
  phase \in {"done", "terminated"} /\ setup.modelUpdateRequired /\ setup.includeModel =>
    /\ \A f \in (1 .. Len(setup.channels)) \X setup.want :
         LET rows == IdToMSRow(setup.ms, setup.selection, {Part(f).dd})
         IN  \A i \in 1 .. Len(rows), ch \in ChannelsOf(Part(f)) :
               CopyData(f[2], setup.have, modelColumn[rows[i]][ch]) = ModelOf(f, i - 1, ch)
    /\ \A r \in 1 .. Len(setup.ms) : \A ch \in DOMAIN modelColumn[r] :
         (\A k \in 1 .. Len(setup.channels) :
            \/ ch \notin ChannelsOf(setup.channels[k])
            \/ r \notin SelectedRows(setup.ms, setup.selection, {setup.channels[k].dd}))
         => modelColumn[r][ch] = setup.model[r][ch]
=============================================================================
